---------------------------- MODULE Spec2Model ----------------------------
(***************************************************************************)
(* A model of the iruastro Vedic-astrology endpoints: the chart, transit,   *)
(* dasha, D9 and horoscope handlers and the helpers they share with the    *)
(* yoga module.                                                            *)
(*                                                                         *)
(* Numbers.  The program computes with IEEE doubles; the model computes    *)
(* with integers in fixed point:                                           *)
(*   - an angle is a whole number of micro-degrees (Deg = 10^6 per degree),*)
(*   - an instant of the transit scanner is a whole number of milliseconds *)
(*     counted from the scan's start instant (a JavaScript Date holds a    *)
(*     whole number of milliseconds, so Date construction truncates),      *)
(*   - an instant of the dasha scheduler is a whole number of calendar     *)
(*     months counted from the birth instant (see RoundDiv).                *)
(* The external collaborators (the ephemeris, moment-timezone) are         *)
(* modelled at their interface: the ephemeris by bounded families of       *)
(* longitudes, moment by its documented arithmetic.                        *)
(***************************************************************************)
EXTENDS Integers, Sequences, FiniteSets, TLC

VARIABLES
    \* getHouse (three implementations) applied to one pair of longitudes
    hLongitude, hAscendant, hImpl, hHouse,
    \* checkAspect applied to one pair of longitudes
    aDeg1, aDeg2, aPc, aAspect,
    \* getDignity applied to one planet, rashi name and language
    gPlanet, gRashi, gLanguage, gPc, gDignity,
    \* the chart endpoint serving one request
    cRequest, cPc, cAyanamsa, cElon, cPositions, cLagna, cStatus,
    \* calculateDashaPeriods applied to one birth instant and Moon longitude
    dMoonDegree, dPc, dCurrentDate, dDashas,
    \* the transit endpoint serving one request against one ephemeris
    tRequest, tEphemeris, tPc, tAyanamsa, tDay, tTransits, tStatus,
    \* getNakshatra (three implementations) applied to one longitude and ayanamsa
    nLongitude, nAyanamsa, nImpl, nInfo,
    \* calculateD9Position applied to one longitude and ayanamsa
    vLongitude, vAyanamsa, vPc, vPosition,
    \* one request routed to one of the other functions (D9, dasha, horoscope, helpers)
    fnName, fnRequest, fnSecret, fnEphemeris, fnResponse,
    \* calculateYogas applied to one set of sidereal positions and a language
    yPositions, yLanguage, yPc, yYogas

houseVars == <<hLongitude, hAscendant, hImpl, hHouse>>
aspectVars == <<aDeg1, aDeg2, aPc, aAspect>>
dignityVars == <<gPlanet, gRashi, gLanguage, gPc, gDignity>>
chartVars == <<cRequest, cPc, cAyanamsa, cElon, cPositions, cLagna, cStatus>>
dashaVars == <<dMoonDegree, dPc, dCurrentDate, dDashas>>
transitVars == <<tRequest, tEphemeris, tPc, tAyanamsa, tDay, tTransits, tStatus>>
nakshatraVars == <<nLongitude, nAyanamsa, nImpl, nInfo>>
navamshaVars == <<vLongitude, vAyanamsa, vPc, vPosition>>
fnVars == <<fnName, fnRequest, fnSecret, fnEphemeris, fnResponse>>
yogaVars == <<yPositions, yLanguage, yPc, yYogas>>
vars == <<houseVars, aspectVars, dignityVars, chartVars, dashaVars, transitVars, nakshatraVars, navamshaVars, fnVars, yogaVars>>

\* What an action of one component leaves alone: the other components.
houseOthers == <<aspectVars, dignityVars, chartVars, dashaVars, transitVars, nakshatraVars, navamshaVars, fnVars, yogaVars>>
aspectOthers == <<houseVars, dignityVars, chartVars, dashaVars, transitVars, nakshatraVars, navamshaVars, fnVars, yogaVars>>
dignityOthers == <<houseVars, aspectVars, chartVars, dashaVars, transitVars, nakshatraVars, navamshaVars, fnVars, yogaVars>>
chartOthers == <<houseVars, aspectVars, dignityVars, dashaVars, transitVars, nakshatraVars, navamshaVars, fnVars, yogaVars>>
dashaOthers == <<houseVars, aspectVars, dignityVars, chartVars, transitVars, nakshatraVars, navamshaVars, fnVars, yogaVars>>
transitOthers == <<houseVars, aspectVars, dignityVars, chartVars, dashaVars, nakshatraVars, navamshaVars, fnVars, yogaVars>>
nakshatraOthers == <<houseVars, aspectVars, dignityVars, chartVars, dashaVars, transitVars, navamshaVars, fnVars, yogaVars>>
navamshaOthers == <<houseVars, aspectVars, dignityVars, chartVars, dashaVars, transitVars, nakshatraVars, fnVars, yogaVars>>
fnOthers == <<houseVars, aspectVars, dignityVars, chartVars, dashaVars, transitVars, nakshatraVars, navamshaVars, yogaVars>>
yogaOthers == <<houseVars, aspectVars, dignityVars, chartVars, dashaVars, transitVars, nakshatraVars, navamshaVars, fnVars>>

(***************************************************************************)
(* Arithmetic                                                              *)
(***************************************************************************)

\* Micro-degrees per degree: the resolution of every angle of the model.
Deg == 10^6

\* 360 degrees, the modulus of every longitude.
Circle == 360 * Deg

\* Width of a rashi (zodiac sign).
RashiWidth == 30 * Deg

Abs(x) == IF x < 0 THEN -x ELSE x

Min(x, y) == IF x <= y THEN x ELSE y

\* JavaScript's % : the remainder takes the sign of the dividend.
JsRem(a, b) == IF a >= 0 THEN a % b ELSE -((-a) % b)

\* ((x % 360) + 360) % 360, the normalisation the code applies.
Normalize360(x) == JsRem(JsRem(x, Circle) + Circle, Circle)

\* Math.floor(x / d) for d > 0.
FloorDiv(x, d) == x \div d

\* <<q, r>> with x * a = q * b + r and 0 <= r < b, for x >= 0, a >= 0, b > 0,
\* computed three bits of x at a time so that no intermediate product leaves
\* 32 bits (15 * b < 2^31).
RECURSIVE MulDivQR(_, _, _)
MulDivQR(x, a, b) ==
    IF x = 0 THEN <<0, 0>>
    ELSE LET h == MulDivQR(x \div 8, a, b)
             t == 8 * h[2] + (x % 8) * (a % b)
         IN  <<8 * h[1] + (x % 8) * (a \div b) + (t \div b), t % b>>

\* Math.floor(x * a / b) for b > 0 and any signs of x and a.
MulDivFloor(x, a, b) ==
    LET qr == MulDivQR(Abs(x), Abs(a), b)
    IN  IF (x < 0) = (a < 0) \/ x = 0 \/ a = 0
        THEN qr[1]
        ELSE -(qr[1] + (IF qr[2] > 0 THEN 1 ELSE 0))

(***************************************************************************)
(* getHouse: the three implementations                                     *)
(***************************************************************************)

\* netlify/utils/astronomical.ts getHouse: distance from the Ascendant's degree.
GetHouseUtils(longitude, ascendantLongitude) ==
    LET normalizedLongitude == Normalize360(longitude)
        normalizedAscendant == Normalize360(ascendantLongitude)
    IN  FloorDiv(JsRem(normalizedLongitude - normalizedAscendant + Circle, Circle),
                 RashiWidth) + 1

\* netlify/functions/yoga.ts getHouse: difference of the two sign indexes.
GetHouseYoga(longitude, ascendantLongitude) ==
    LET normalizedLongitude == Normalize360(longitude)
        normalizedAscendant == Normalize360(ascendantLongitude)
        diff == FloorDiv(normalizedLongitude, RashiWidth)
                    - FloorDiv(normalizedAscendant, RashiWidth)
        relativePosition == IF diff < 0 THEN diff + 12 ELSE diff
        house == relativePosition + 1
    IN  JsRem(house - 1 + 12, 12) + 1

\* The yoga helper module (src/unnamed/part_000) getHouse: as the utils one.
GetHouseHelpers(longitude, ascendantLongitude) ==
    LET normalizedLongitude == Normalize360(longitude)
        normalizedAscendant == Normalize360(ascendantLongitude)
    IN  FloorDiv(JsRem(normalizedLongitude - normalizedAscendant + Circle, Circle),
                 RashiWidth) + 1

\* The longitudes getHouse is applied to: every whole degree of the circle.
HouseLongitudes == {k * Deg : k \in 0..359}

HouseIdle ==
    /\ hLongitude = 0
    /\ hAscendant = 0
    /\ hImpl = "none"
    /\ hHouse = 0

CallGetHouseUtils ==
    /\ hImpl = "none"
    /\ hImpl' = "utils"
    /\ hHouse' = GetHouseUtils(hLongitude, hAscendant)
    /\ UNCHANGED <<hLongitude, hAscendant, houseOthers>>

CallGetHouseYoga ==
    /\ hImpl = "none"
    /\ hImpl' = "yoga"
    /\ hHouse' = GetHouseYoga(hLongitude, hAscendant)
    /\ UNCHANGED <<hLongitude, hAscendant, houseOthers>>

CallGetHouseHelpers ==
    /\ hImpl = "none"
    /\ hImpl' = "helpers"
    /\ hHouse' = GetHouseHelpers(hLongitude, hAscendant)
    /\ UNCHANGED <<hLongitude, hAscendant, houseOthers>>

(***************************************************************************)
(* checkAspect (transit scanner)                                           *)
(***************************************************************************)

\* const orb = 8
Orb == 8

\* checkAspect(deg1, deg2): the first matching test wins; "none" is null.
CheckAspect(deg1, deg2) ==
    LET angle == Abs(deg1 - deg2)
        orb == Orb * Deg
    IN  IF Abs(angle) < orb \/ Abs(angle - Circle) < orb THEN "conjunction"
        ELSE IF Abs(angle - 180 * Deg) < orb THEN "opposition"
        ELSE IF Abs(angle - 120 * Deg) < orb THEN "trine"
        ELSE IF Abs(angle - 90 * Deg) < orb THEN "square"
        ELSE IF Abs(angle - 60 * Deg) < orb THEN "sextile"
        ELSE "none"

\* The longitudes checkAspect is applied to: deg1 on every whole degree, deg2
\* on every half degree (98.5 degrees apart is a case of the specification).
AspectDeg1s == {k * Deg : k \in 0..359}
AspectDeg2s == {k * (Deg \div 2) : k \in 0..719}

AspectIdle ==
    /\ aDeg1 = 0
    /\ aDeg2 = 0
    /\ aPc = "idle"
    /\ aAspect = "none"

CallCheckAspect ==
    /\ aPc = "call"
    /\ aPc' = "done"
    /\ aAspect' = CheckAspect(aDeg1, aDeg2)
    /\ UNCHANGED <<aDeg1, aDeg2, aspectOthers>>

(***************************************************************************)
(* getDignity (chart endpoint)                                             *)
(***************************************************************************)

Planets == {"Sun", "Moon", "Mars", "Mercury", "Jupiter", "Venus", "Saturn"}

\* The western sign names the dignity tables are keyed by, in zodiac order.
ZodiacSigns ==
    <<"Aries", "Taurus", "Gemini", "Cancer", "Leo", "Virgo",
      "Libra", "Scorpio", "Sagittarius", "Capricorn", "Aquarius", "Pisces">>

\* translations.en.rashis
RashisEn ==
    <<"Mesha", "Vrushamba", "Mithuna", "Kataka", "Sinha", "Kanya",
      "Tula", "Vrushchika", "Dhanu", "Makara", "Kumbha", "Meena">>

\* translations.si.rashis: the twelve Sinhala names, written here by their
\* transliteration (twelve distinct strings, none of them an English name).
RashisSi ==
    <<"si:mesha", "si:vrushabha", "si:mithuna", "si:kataka", "si:sinha", "si:kanya",
      "si:tula", "si:vrushchika", "si:dhanu", "si:makara", "si:kumbha", "si:meena">>

IndexOf(seq, x) ==
    IF \E i \in 1..Len(seq) : seq[i] = x
    THEN CHOOSE i \in 1..Len(seq) : seq[i] = x /\ \A j \in 1..(i - 1) : seq[j] # x
    ELSE 0

\* getRashiName(index, language), index 0..11
GetRashiName(index, language) ==
    IF language = "si" THEN RashisSi[index + 1] ELSE RashisEn[index + 1]

planetaryRulers ==
    [Sun |-> "Leo", Moon |-> "Cancer", Mars |-> "Aries", Mercury |-> "Gemini",
     Jupiter |-> "Sagittarius", Venus |-> "Taurus", Saturn |-> "Capricorn"]

planetaryExaltation ==
    [Sun |-> "Aries", Moon |-> "Taurus", Mars |-> "Capricorn", Mercury |-> "Virgo",
     Jupiter |-> "Cancer", Venus |-> "Pisces", Saturn |-> "Libra"]

planetaryDebilitation ==
    [Sun |-> "Libra", Moon |-> "Scorpio", Mars |-> "Cancer", Mercury |-> "Pisces",
     Jupiter |-> "Capricorn", Venus |-> "Virgo", Saturn |-> "Aries"]

planetaryFriendships ==
    [Sun |-> {"Moon", "Mars", "Jupiter"}, Moon |-> {"Sun", "Mercury"},
     Mars |-> {"Sun", "Moon", "Jupiter"}, Mercury |-> {"Sun", "Venus"},
     Jupiter |-> {"Sun", "Moon", "Mars"}, Venus |-> {"Mercury", "Saturn"},
     Saturn |-> {"Mercury", "Venus"}]

\* The second sign of the five planets that own two, as the own-sign test
\* of getDignity spells it out.
SecondOwnSign(planet, standardRashi) ==
    \/ planet = "Mars" /\ standardRashi = "Scorpio"
    \/ planet = "Mercury" /\ standardRashi = "Virgo"
    \/ planet = "Jupiter" /\ standardRashi = "Pisces"
    \/ planet = "Venus" /\ standardRashi = "Libra"
    \/ planet = "Saturn" /\ standardRashi = "Aquarius"

\* The standardRashi lookup: an en rashi name to its western sign name, any
\* other string to itself.
StandardRashi(rashiInEnglish) ==
    IF IndexOf(RashisEn, rashiInEnglish) # 0
    THEN ZodiacSigns[IndexOf(RashisEn, rashiInEnglish)]
    ELSE rashiInEnglish

\* The dignity labels per language.  In Sinhala the code labels both
\* Debilitated and the Enemy default with the same word.
DignityLabel(kind, language) ==
    IF language = "si"
    THEN CASE kind = "Unknown" -> "si:nodani"
           [] kind = "Exalted" -> "si:uchcha"
           [] kind = "Debilitated" -> "si:neecha"
           [] kind = "Own Sign" -> "si:svakshetra"
           [] kind = "Friendly" -> "si:mitra"
           [] kind = "Enemy" -> "si:neecha"
    ELSE kind

\* The own-sign test placed before the exaltation test.
GetDignityOwnSignFirst(planet, rashi, language) ==
    LET index == IndexOf(RashisSi, rashi)
        rashiInEnglish == IF language = "si"
                          THEN (IF index = 0 THEN rashi ELSE RashisEn[index])
                          ELSE rashi
        standardRashi == StandardRashi(rashiInEnglish)
        rulerOf == {p \in Planets : planetaryRulers[p] = standardRashi}
    IN  IF language = "si" /\ index = 0 THEN DignityLabel("Unknown", language)
        ELSE IF planetaryRulers[planet] = standardRashi
                \/ SecondOwnSign(planet, standardRashi)
          THEN DignityLabel("Own Sign", language)
        ELSE IF planetaryExaltation[planet] = standardRashi
          THEN DignityLabel("Exalted", language)
        ELSE IF planetaryDebilitation[planet] = standardRashi
          THEN DignityLabel("Debilitated", language)
        ELSE IF rulerOf # {} /\ (rulerOf \cap planetaryFriendships[planet]) # {}
          THEN DignityLabel("Friendly", language)
        ELSE DignityLabel("Enemy", language)

\* getDignity(planet, rashi, language).dignity
GetDignity(planet, rashi, language) ==
    LET index == IndexOf(RashisSi, rashi)
        rashiInEnglish == IF language = "si"
                          THEN (IF index = 0 THEN rashi ELSE RashisEn[index])
                          ELSE rashi
        standardRashi == StandardRashi(rashiInEnglish)
        \* Object.entries(planetaryRulers).find(sign === standardRashi): each sign
        \* is the value of at most one planet, so the first match is the only one.
        rulerOf == {p \in Planets : planetaryRulers[p] = standardRashi}
    IN  IF language = "si" /\ index = 0 THEN DignityLabel("Unknown", language)
        ELSE IF planetaryExaltation[planet] = standardRashi
          THEN DignityLabel("Exalted", language)
        ELSE IF planetaryDebilitation[planet] = standardRashi
          THEN DignityLabel("Debilitated", language)
        ELSE IF planetaryRulers[planet] = standardRashi
                \/ SecondOwnSign(planet, standardRashi)
          THEN DignityLabel("Own Sign", language)
        ELSE IF rulerOf # {} /\ (rulerOf \cap planetaryFriendships[planet]) # {}
          THEN DignityLabel("Friendly", language)
        ELSE DignityLabel("Enemy", language)

Languages == {"en", "si"}

DignityIdle ==
    /\ gPlanet = "Sun"
    /\ gRashi = "Mesha"
    /\ gLanguage = "en"
    /\ gPc = "idle"
    /\ gDignity = "none"

\* The chart handler's call: getDignity(planet, rashiInfo.rashi, language).
CallGetDignity ==
    /\ gPc = "call"
    /\ gPc' = "done"
    /\ gDignity' = GetDignity(gPlanet, gRashi, gLanguage)
    /\ UNCHANGED <<gPlanet, gRashi, gLanguage, dignityOthers>>

(***************************************************************************)
(* The chart endpoint (Vedic Horoscope Generator)                          *)
(***************************************************************************)

\* referenceDegrees = 23.15
ReferenceDegrees == 23150000

\* calculateAyanamsa(date), date in whole days since the reference date
\* 1950-01-01T00:00:00Z: 23.15 + (50.2388475 / 3600) * days / 365.25, that is
\* 502388475 / 13149000 micro-degrees a day.
CalculateAyanamsa(days) == ReferenceDegrees + MulDivFloor(days, 502388475, 13149000)

\* 0.00256 * cos((198.867398 + 0.0090019 * T) * pi / 180): for |T| <= 1 the
\* angle stays within 0.01 degree of 198.867 and the term within 10^-7 degree
\* of -0.0024225, below the model's resolution.
NodeCosTerm == -2422

\* calculateLunarNodes(dateTime): J2000.0 is 18262.5 days after the reference
\* date, so T = (2 * days - 36525) / 73050 Julian centuries (the 69 s between
\* TT and UTC are left out).
MeanNode(days) ==
    LET x == 2 * days - 36525
        sq == MulDivFloor(x, x, 73050)
        cu == MulDivFloor(sq, x, 73050)
    IN  251044548 - MulDivFloor(x, 1934136289, 73050)
            + MulDivFloor(sq, 20754, 730500)
            + MulDivFloor(cu, 1000, 34146565)
            + NodeCosTerm

\* Nodes that are 179 degrees apart.
CalculateLunarNodesSkewed(days) ==
    LET meanNode == Normalize360(MeanNode(days))
    IN  [rahu |-> meanNode, ketu |-> JsRem(meanNode + 179 * Deg, Circle)]

CalculateLunarNodes(days) ==
    LET meanNode == Normalize360(MeanNode(days))
    IN  [rahu |-> meanNode, ketu |-> JsRem(meanNode + 180 * Deg, Circle)]

\* getRashi(eclipticLongitude, ayanamsa, language).rashi of the chart endpoint
GetRashiChart(eclipticLongitude, ayanamsa, language) ==
    LET normalizedInput == Normalize360(eclipticLongitude)
        siderealLong == Normalize360(normalizedInput - ayanamsa)
        rashiIndex == FloorDiv(siderealLong, RashiWidth)
    IN  GetRashiName(rashiIndex, language)

\* const planets: Body[], in the order the handler visits them
ChartPlanets == <<"Sun", "Moon", "Mercury", "Venus", "Mars", "Jupiter", "Saturn">>

\* One entry of planetaryPositions: { ...rashiInfo, degree: ecliptic.elon -
\* ayanamsa, ..., dignity } (the nakshatra fields are those of getNakshatra).
PlanetEntry(planet, elon, ayanamsa, language) ==
    [rashi |-> GetRashiChart(elon, ayanamsa, language),
     degree |-> elon - ayanamsa,
     dignity |-> GetDignity(planet, GetRashiChart(elon, ayanamsa, language), language)]

\* The entry of Rahu or Ketu: degree: lunarNodes.rahu - ayanamsa, dignity Neutral.
NodeEntry(nodeLongitude, ayanamsa, language) ==
    [rashi |-> GetRashiChart(nodeLongitude, ayanamsa, language),
     degree |-> nodeLongitude - ayanamsa,
     dignity |-> IF language = "si" THEN "si:madhyastha" ELSE "Neutral"]

\* Ecliptic longitudes the ephemeris may return for a body: one below every
\* ayanamsa, one between the ayanamsa of 1950 and of 2024, one just below 360.
EclipticSamples == {5 * Deg, 24 * Deg, 359 * Deg + 999999}

\* Instants of a request, in whole days since 1950-01-01: 1950-01-01,
\* 1990-06-15, 2000-01-01 (when the mean node lies past 180 degrees),
\* 2024-04-16.
ChartDays == {0, 14775, 18262, 27134}

\* Ascendant longitudes calculateAscendant may return: ((atan2(..) * 180 / pi)
\* + 360) % 360 lies in [0,360).
AscendantSamples == {0, 359 * Deg}

\* The requests: the method, the Authorization header against the configured
\* secret, the body and its fields by what the handler tests of them.  A
\* location that is numeric is in range ("numeric") or has a latitude of 95 or
\* a longitude of 200.
ChartRequests ==
    [httpMethod : {"POST", "GET"},
     authorization : {"missing", "wrong", "valid"},
     body : {"missing", "json"},
     dob : {"absent", "unparseable", "valid"},
     time : {"absent", "valid"},
     location : {"absent", "nonNumeric", "numeric", "latitude95", "longitude200"},
     language : Languages,
     days : ChartDays]

\* The requests whose fields the handler never reads carry default fields.
ChartRequestCanonical(r) ==
    /\ (r.httpMethod # "POST" \/ r.authorization # "valid" \/ r.body = "missing")
        => /\ r.dob = "valid" /\ r.time = "valid" /\ r.location = "numeric"
           /\ r.language = "en"
    /\ (r.httpMethod # "POST" \/ r.authorization # "valid" \/ r.body = "missing"
            \/ r.dob # "valid" \/ r.time # "valid"
            \/ r.location \in {"absent", "nonNumeric"})
        => r.days = 0

\* new Astronomy.Observer(latitude, longitude, elevation): the library's
\* constructor is not part of this repository; for a latitude outside
\* [-90, 90] it either throws or constructs the observer.
ObserverOutcomes(r) ==
    IF r.location = "latitude95" THEN {"throws", "constructed"} ELSE {"constructed"}

\* validateToken(event)
ValidateToken(r) == r.authorization = "valid"

\* The errors list of the handler's validation.
ChartValidationErrors(r) ==
    (IF r.dob = "absent" THEN {"dob is required"} ELSE {})
    \cup (IF r.time = "absent" THEN {"time is required"} ELSE {})
    \cup (IF r.location \in {"absent", "nonNumeric"}
          THEN {"Valid location.latitude and location.longitude are required"}
          ELSE {})

ChartIdle ==
    /\ cRequest = [httpMethod |-> "GET"]
    /\ cPc = "idle"
    /\ cAyanamsa = 0
    /\ cElon = <<>>
    /\ cPositions = <<>>
    /\ cLagna = 0
    /\ cStatus = 0

\* The handler up to the planet loop: method, token, body, validation, date,
\* observer.
ChartReceive ==
    /\ cPc = "received"
    /\ \E observer \in ObserverOutcomes(cRequest) :
       IF cRequest.httpMethod # "POST"
         THEN cStatus' = 405 /\ cPc' = "responded" /\ UNCHANGED cAyanamsa
       ELSE IF ~ValidateToken(cRequest)
         THEN cStatus' = 401 /\ cPc' = "responded" /\ UNCHANGED cAyanamsa
       ELSE IF cRequest.body = "missing"
         THEN cStatus' = 500 /\ cPc' = "responded" /\ UNCHANGED cAyanamsa
       ELSE IF ChartValidationErrors(cRequest) # {}
         THEN cStatus' = 400 /\ cPc' = "responded" /\ UNCHANGED cAyanamsa
       ELSE IF cRequest.dob = "unparseable"
         THEN cStatus' = 500 /\ cPc' = "responded" /\ UNCHANGED cAyanamsa
       ELSE IF observer = "throws"
         THEN cStatus' = 500 /\ cPc' = "responded" /\ UNCHANGED cAyanamsa
       ELSE /\ cAyanamsa' = CalculateAyanamsa(cRequest.days)
            /\ cPc' = "planets"
            /\ UNCHANGED cStatus
    /\ UNCHANGED <<cRequest, cElon, cPositions, cLagna, chartOthers>>

\* One turn of the loop over planets: the ephemeris gives ecliptic.elon.
ChartPlanet ==
    /\ cPc = "planets"
    /\ LET planet == ChartPlanets[Len(cElon) + 1]
       IN  \E elon \in EclipticSamples :
             /\ cElon' = Append(cElon, elon)
             /\ cPositions' = [b \in DOMAIN cPositions \cup {planet} |->
                    IF b = planet
                    THEN PlanetEntry(planet, elon, cAyanamsa, cRequest.language)
                    ELSE cPositions[b]]
    /\ cPc' = IF Len(cElon) + 1 = Len(ChartPlanets) THEN "nodes" ELSE "planets"
    /\ UNCHANGED <<cRequest, cAyanamsa, cLagna, cStatus, chartOthers>>

\* The lunar nodes: calculateLunarNodes and the Rahu and Ketu entries.
ChartNodes ==
    /\ cPc = "nodes"
    /\ LET lunarNodes == CalculateLunarNodes(cRequest.days)
       IN  cPositions' = [b \in DOMAIN cPositions \cup {"Rahu", "Ketu"} |->
                IF b = "Rahu"
                THEN NodeEntry(lunarNodes.rahu, cAyanamsa, cRequest.language)
                ELSE IF b = "Ketu"
                THEN NodeEntry(lunarNodes.ketu, cAyanamsa, cRequest.language)
                ELSE cPositions[b]]
    /\ cPc' = "ascendant"
    /\ UNCHANGED <<cRequest, cAyanamsa, cElon, cLagna, cStatus, chartOthers>>

\* The Ascendant and the 200 response.
ChartRespond ==
    /\ cPc = "ascendant"
    /\ \E ascendantLongitude \in AscendantSamples : cLagna' = ascendantLongitude
    /\ cStatus' = 200
    /\ cPc' = "responded"
    /\ UNCHANGED <<cRequest, cAyanamsa, cElon, cPositions, chartOthers>>

(***************************************************************************)
(* The dasha scheduler                                                     *)
(*                                                                         *)
(* Dates are whole calendar months counted from the birth instant.         *)
(* moment's add(n, 'years') turns a fractional number of years into months *)
(* (years * 12) and rounds them to the nearest whole month before adding   *)
(* (moment >= 2.12: "decimal ... years are converted to ... months, and    *)
(* then rounded to the nearest integer"), so every date the scheduler      *)
(* makes is the birth instant plus a whole number of months; the birth's   *)
(* day of month is taken to be at most 28, so that no month-end clamping   *)
(* occurs and diff(..., 'years', true) is months / 12 exactly.             *)
(***************************************************************************)

\* const dashaPeriods: Record<PlanetName, number>, in years
dashaPeriods ==
    [Ketu |-> 7, Venus |-> 20, Sun |-> 6, Moon |-> 10, Mars |-> 7,
     Rahu |-> 18, Jupiter |-> 16, Saturn |-> 19, Mercury |-> 17]

\* const planetSequence: PlanetName[]
planetSequence ==
    <<"Ketu", "Venus", "Sun", "Moon", "Mars", "Rahu", "Jupiter", "Saturn", "Mercury">>

\* const totalCycle = 120 and the 120 of calculateAntarDasha
TotalCycle == 120

\* The width of 40 nakshatra-thirds: deg * 27 / 360 = 3 * deg / (40 degrees).
NakshatraDen == 40 * Deg

\* Math.floor(deg * 27 / 360)
NakshatraOf(deg) == FloorDiv(3 * deg, NakshatraDen)

\* getNakshatraLord(deg): lords[nakshatra], the 9-planet sequence three times.
GetNakshatraLord(deg) == planetSequence[(NakshatraOf(deg) % 9) + 1]

\* (moonDegree * 27 / 360) % 1 as the numerator of a fraction of NakshatraDen.
ProgressNum(moonDegree) == (3 * moonDegree) % NakshatraDen

\* Math.round of the fraction num / den, den > 0, num >= 0.
RoundDiv(num, den) == (2 * num + den) \div (2 * den)

\* The months moment adds for remainingYears = dashaPeriods[currentLord] *
\* (1 - progressInNakshatra): Math.round(remainingYears * 12).
RemainingMonths(moonDegree) ==
    LET qr == MulDivQR(NakshatraDen - ProgressNum(moonDegree),
                       12 * dashaPeriods[GetNakshatraLord(moonDegree)],
                       NakshatraDen)
    IN  qr[1] + (IF 2 * qr[2] >= NakshatraDen THEN 1 ELSE 0)

\* planetSequence.indexOf(planet), 0-based
SequenceIndex(planet) == IndexOf(planetSequence, planet) - 1

\* calculateAntarDasha(startDate, endDate, mahadashaLord): totalPeriod is
\* (endDate - startDate) / 12 years, periodYears = (dashaPeriods[planet] / 120)
\* * totalPeriod, and add(periodYears, 'years') adds Math.round(periodYears *
\* 12) months.
RECURSIVE AntarDashaFrom(_, _, _, _)
AntarDashaFrom(i, currentDate, totalMonths, startIndex) ==
    IF i = 9 THEN <<>>
    ELSE LET planet == planetSequence[((startIndex + i) % 9) + 1]
             antarEndDate == currentDate
                 + RoundDiv(dashaPeriods[planet] * totalMonths, TotalCycle)
         IN  <<[planet |-> planet, startDate |-> currentDate,
                endDate |-> antarEndDate]>>
             \o AntarDashaFrom(i + 1, antarEndDate, totalMonths, startIndex)

\* Sub-periods that start at Ketu whatever the lord of the period.
CalculateAntarDashaFromKetu(startDate, endDate, mahadashaLord) ==
    AntarDashaFrom(0, startDate, endDate - startDate, 0)

CalculateAntarDasha(startDate, endDate, mahadashaLord) ==
    AntarDashaFrom(0, startDate, endDate - startDate, SequenceIndex(mahadashaLord))

\* A period whose startDate is read after add() moved the shared moment.
DashaPeriodAliased(i, currentDate, moonDegree) ==
    LET startIndex == SequenceIndex(GetNakshatraLord(moonDegree))
        planet == planetSequence[((startIndex + i) % 9) + 1]
        periodMonths == IF i = 0 THEN RemainingMonths(moonDegree)
                        ELSE 12 * dashaPeriods[planet]
        endDate == currentDate + periodMonths
    IN  [planet |-> planet, startDate |-> endDate, endDate |-> endDate,
         antardasha |-> CalculateAntarDasha(currentDate, endDate, planet)]

\* The i-th turn of the loop of calculateDashaPeriods: the pushed period.
DashaPeriod(i, currentDate, moonDegree) ==
    LET startIndex == SequenceIndex(GetNakshatraLord(moonDegree))
        planet == planetSequence[((startIndex + i) % 9) + 1]
        periodMonths == IF i = 0 THEN RemainingMonths(moonDegree)
                        ELSE 12 * dashaPeriods[planet]
        startDate == currentDate
        endDate == currentDate + periodMonths
    IN  [planet |-> planet, startDate |-> startDate, endDate |-> endDate,
         antardasha |-> CalculateAntarDasha(startDate, endDate, planet)]

\* Sidereal Moon longitudes at birth: every eighth of a degree of [0,360).
MoonDegrees == {k * (Deg \div 8) : k \in 0..2879}

DashaIdle ==
    /\ dMoonDegree = 0
    /\ dPc = "idle"
    /\ dCurrentDate = 0
    /\ dDashas = <<>>

\* One turn of the loop: push the period, currentDate = endDate.
DashaLoop ==
    /\ dPc = "loop"
    /\ Len(dDashas) < 9
    /\ LET period == DashaPeriod(Len(dDashas), dCurrentDate, dMoonDegree)
       IN  /\ dDashas' = Append(dDashas, period)
           /\ dCurrentDate' = period.endDate
    /\ UNCHANGED <<dMoonDegree, dPc, dashaOthers>>

\* return dashas
DashaReturn ==
    /\ dPc = "loop"
    /\ Len(dDashas) = 9
    /\ dPc' = "returned"
    /\ UNCHANGED <<dMoonDegree, dCurrentDate, dDashas, dashaOthers>>

(***************************************************************************)
(* The transit endpoint (Transit Scanner)                                  *)
(*                                                                         *)
(* Instants are milliseconds counted from the scan's start instant, taken  *)
(* to fall on a whole second in a zone without a clock change during the   *)
(* scan, so that add(1, 'day') adds 24 hours.  The ephemeris is a          *)
(* collaborator: per body it is a motion at a constant daily rate that may *)
(* reverse once (a station).                                               *)
(***************************************************************************)

\* Milliseconds of a day.
DayMs == 24 * 60 * 60 * 1000

\* const iterations = 48
Iterations == 48

\* The most days an endDate lies after the startDate.
MaxScanDays == 3

\* The bodies of the request's planets list, in the order of the list.
TransitPlanets == <<"Sun", "Moon", "Mars">>

\* currentMoment of the loop's turn number day.
DayStart(day) == day * DayMs

\* Astronomy.Ecliptic(Astronomy.GeoVector(planet, dateTime, true)).elon at the
\* instant t: the body moves at e.rate micro-degrees a day from e.start and
\* from the instant e.turn on at the opposite rate, until the instant e.back
\* from which it moves at e.rate again.
EclipticLongitude(e, t) ==
    LET moved == IF t <= e.turn THEN t
                 ELSE IF t <= e.back THEN 2 * e.turn - t
                 ELSE 2 * e.turn - 2 * e.back + t
    IN  Normalize360(e.start + MulDivFloor(moved, e.rate, DayMs))

\* calculatePlanetaryPosition(planet, dateTime, ayanamsa)
CalculatePlanetaryPosition(planet, dateTime, ayanamsa) ==
    LET elon == EclipticLongitude(tEphemeris[planet], dateTime)
        normalizedLong == Normalize360(elon)
    IN  [longitude |-> normalizedLong,
         siderealLongitude |-> JsRem(normalizedLong - ayanamsa + Circle, Circle)]

\* getRashi(eclipticLongitude, ayanamsa, language) of the transit module: the
\* name of the sign of the given longitude (the ayanamsa is not used).
GetRashiTransit(eclipticLongitude, language) ==
    GetRashiName(FloorDiv(Normalize360(eclipticLongitude), RashiWidth), language)

\* The rashi of the i-th sample of findPreciseTransitTime's loop.
SampleRashi(planet, startTime, timeStep, ayanamsa, i) ==
    FloorDiv(CalculatePlanetaryPosition(planet, startTime + i * timeStep,
                                        ayanamsa).siderealLongitude, RashiWidth)

\* The least element of a set of numbers, none for the empty set.
FirstOf(S, none) ==
    IF S = {} THEN none ELSE CHOOSE i \in S : \A k \in S : i <= k

\* The loop of findPreciseTransitTime over the samples: the first i in
\* 1..iterations whose sample lies in another rashi than the sample before
\* it, iterations + 1 when there is none.
FirstRashiChange(planet, startTime, timeStep, ayanamsa) ==
    FirstOf({i \in 1..Iterations :
                SampleRashi(planet, startTime, timeStep, ayanamsa, i)
                    # SampleRashi(planet, startTime, timeStep, ayanamsa, i - 1)},
            Iterations + 1)

\* interpolatedTime: refinedStart + (mid - refinedStart) * ratio with ratio =
\* num / den = (30 - prevSiderealLong % 30) / (midLong % 30 -
\* prevSiderealLong % 30), truncated by new Date; valid is FALSE when the
\* ratio is infinite (a zero denominator) and the Date invalid.
InterpolatedTime(refinedStart, mid, num, den) ==
    IF den = 0 THEN [valid |-> FALSE, time |-> 0]
    ELSE [valid |-> TRUE,
          time |-> refinedStart
                     + MulDivFloor(mid - refinedStart,
                                   IF den < 0 THEN -num ELSE num, Abs(den))]

\* A probe two fifths of the way from left to right.
MidTwoFifths(left, right) == left + (2 * (right - left)) \div 5

\* const mid = new Date((left + right) / 2)
Mid(left, right) == (left + right) \div 2

\* One more turn of the while loop before the outcome rest.
CountTurn(rest) == [rest EXCEPT !.turns = @ + 1]

\* The while loop of findPreciseTransitTime: the final values of left and
\* right and the number of turns taken, or throws when the ephemeris is asked
\* for an invalid Date.
RECURSIVE BinarySearch(_, _, _, _, _, _, _)
BinarySearch(planet, ayanamsa, refinedStart, prevRashi, left, right, prevSiderealLong) ==
    IF right - left <= 1000
    THEN [throws |-> FALSE, left |-> left, right |-> right, turns |-> 0]
    ELSE LET mid == Mid(left, right)
             midPosition == CalculatePlanetaryPosition(planet, mid, ayanamsa)
             interpolated == InterpolatedTime(refinedStart, mid,
                 RashiWidth - JsRem(prevSiderealLong, RashiWidth),
                 JsRem(midPosition.siderealLongitude, RashiWidth)
                     - JsRem(prevSiderealLong, RashiWidth))
             interpolatedPosition ==
                 CalculatePlanetaryPosition(planet, interpolated.time, ayanamsa)
         IN  IF ~interpolated.valid
             THEN [throws |-> TRUE, left |-> left, right |-> right, turns |-> 1]
             ELSE IF FloorDiv(interpolatedPosition.siderealLongitude, RashiWidth)
                        = prevRashi
             THEN CountTurn(BinarySearch(planet, ayanamsa, refinedStart, prevRashi,
                      mid, right, interpolatedPosition.siderealLongitude))
             ELSE CountTurn(BinarySearch(planet, ayanamsa, refinedStart, prevRashi,
                      left, mid, prevSiderealLong))

\* Final verification and fine-tuning: finalTime when it lies within 0.01
\* degree of a sign boundary, else finalTime + adjustment / (30 / timeStep).
FineTune(planet, ayanamsa, timeStep, finalTime) ==
    LET degrees == JsRem(CalculatePlanetaryPosition(planet, finalTime, ayanamsa)
                             .siderealLongitude, RashiWidth)
    IN  IF degrees > RashiWidth - Deg \div 100 \/ degrees < Deg \div 100
        THEN finalTime
        ELSE finalTime
               + MulDivFloor(IF degrees < 15 * Deg THEN -degrees
                             ELSE RashiWidth - degrees,
                             timeStep, RashiWidth)

\* The while loop as it is entered at the sample instant currentTime: left is
\* refinedStart = currentTime - timeStep, right is currentTime.
Search(planet, ayanamsa, timeStep, currentTime) ==
    LET refinedStart == currentTime - timeStep
        prevSiderealLong ==
            CalculatePlanetaryPosition(planet, refinedStart, ayanamsa).siderealLongitude
    IN  BinarySearch(planet, ayanamsa, refinedStart,
                     FloorDiv(prevSiderealLong, RashiWidth),
                     refinedStart, currentTime, prevSiderealLong)

\* The body of if (prevRashi !== -1 && currentRashi !== prevRashi) at the
\* sample instant currentTime.
RefineTransition(planet, ayanamsa, timeStep, currentTime) ==
    LET search == Search(planet, ayanamsa, timeStep, currentTime)
    IN  IF search.throws THEN [found |-> FALSE, throws |-> TRUE, time |-> 0]
        ELSE [found |-> TRUE, throws |-> FALSE,
              time |-> FineTune(planet, ayanamsa, timeStep, search.right)]

\* findPreciseTransitTime(planet, startTime, endTime, ayanamsa): found is
\* FALSE for null, throws is TRUE when the ephemeris throws.
FindPreciseTransitTime(planet, startTime, endTime, ayanamsa) ==
    LET timeStep == (endTime - startTime) \div Iterations
        i == FirstRashiChange(planet, startTime, timeStep, ayanamsa)
    IN  IF i > Iterations THEN [found |-> FALSE, throws |-> FALSE, time |-> 0]
        ELSE RefineTransition(planet, ayanamsa, timeStep, startTime + i * timeStep)

\* moment.tz(instant, timezone).format(): an ISO string to the second, kept as
\* the instant new Date(date).getTime() reads back from it.
FormatDate(t) == 1000 * FloorDiv(t, 1000)

\* translations[lang].aspects[aspect]
AspectLabel(aspect, language) ==
    IF language = "si"
    THEN [conjunction |-> "si:yuti", opposition |-> "si:ashtama",
          trine |-> "si:trikona", square |-> "si:chaturasra",
          sextile |-> "si:shadashtaka"][aspect]
    ELSE [conjunction |-> "Conjunction", opposition |-> "Opposition",
          trine |-> "Trine", square |-> "Square", sextile |-> "Sextile"][aspect]

\* The aspect field of an event that is not an aspect event (the field is absent).
NoAspect == [type |-> "absent", planet |-> "absent", degree |-> 0]

\* dailyMotion folded into [-180, 180]
FoldMotion(motion) ==
    IF motion > 180 * Deg THEN motion - Circle
    ELSE IF motion < -(180 * Deg) THEN motion + Circle
    ELSE motion

\* transits.push of an ingress: if (preciseTime) { ... }
IngressEvent(planet, ayanamsa, nextRashi, precise) ==
    IF precise.found
    THEN <<[planet |-> planet, eventType |-> "ingress",
            date |-> FormatDate(precise.time),
            degree |-> CalculatePlanetaryPosition(planet, precise.time,
                                                  ayanamsa).siderealLongitude,
            rashi |-> nextRashi, isRetrograde |-> "absent",
            aspect |-> NoAspect]>>
    ELSE <<>>

\* A station on every day of retrograde motion.
StationEventDaily(planet, dateTime, degree, rashi, isRetrograde, wasRetrograde) ==
    IF planet # "Sun" /\ planet # "Moon" /\ isRetrograde
    THEN <<[planet |-> planet, eventType |-> "retrograde",
            date |-> FormatDate(dateTime), degree |-> degree, rashi |-> rashi,
            isRetrograde |-> "true", aspect |-> NoAspect]>>
    ELSE <<>>

\* transits.push of a station: if (isRetrograde !== wasRetrograde) { ... }
StationEvent(planet, dateTime, degree, rashi, isRetrograde, wasRetrograde) ==
    IF planet # "Sun" /\ planet # "Moon" /\ isRetrograde # wasRetrograde
    THEN <<[planet |-> planet,
            eventType |-> IF isRetrograde THEN "retrograde" ELSE "direct",
            date |-> FormatDate(dateTime),
            degree |-> degree,
            rashi |-> rashi,
            isRetrograde |-> IF isRetrograde THEN "true" ELSE "false",
            aspect |-> NoAspect]>>
    ELSE <<>>

\* One turn of the loop over planets on the given day: the events pushed
\* (an ingress, then a station), or throws.
PlanetStep(planet, day, ayanamsa, language) ==
    LET dateTime == DayStart(day)
        nextDay == DayStart(day + 1)
        current == CalculatePlanetaryPosition(planet, dateTime, ayanamsa)
        next == CalculatePlanetaryPosition(planet, nextDay, ayanamsa)
        currentRashi == GetRashiTransit(current.siderealLongitude, language)
        nextRashi == GetRashiTransit(next.siderealLongitude, language)
        precise == IF currentRashi # nextRashi
                   THEN FindPreciseTransitTime(planet, dateTime, nextDay, ayanamsa)
                   ELSE [found |-> FALSE, throws |-> FALSE, time |-> 0]
        dailyMotion == FoldMotion(next.siderealLongitude - current.siderealLongitude)
        prevPosition == CalculatePlanetaryPosition(planet, DayStart(day - 1),
                                                   ayanamsa).siderealLongitude
        prevDailyMotion == FoldMotion(current.siderealLongitude - prevPosition)
    IN  [throws |-> precise.throws,
         events |-> IngressEvent(planet, ayanamsa, nextRashi, precise)
                    \o StationEvent(planet, dateTime, current.siderealLongitude,
                                    currentRashi, dailyMotion < 0,
                                    prevDailyMotion < 0)]

\* A turn of the loop followed by the rest of the loop: an exception in the
\* turn ends the loop.
StepThen(step, rest) ==
    IF step.throws THEN [throws |-> TRUE, events |-> <<>>]
    ELSE [throws |-> rest.throws, events |-> step.events \o rest.events]

\* The loop over planets from the k-th body of the list on.
RECURSIVE PlanetSteps(_, _, _, _, _)
PlanetSteps(planets, k, day, ayanamsa, language) ==
    IF k > Len(planets) THEN [throws |-> FALSE, events |-> <<>>]
    ELSE StepThen(PlanetStep(planets[k], day, ayanamsa, language),
                  PlanetSteps(planets, k + 1, day, ayanamsa, language))

\* A record of the aspect on every day it is held.
RecordsAspectDaily(currentAspect, nextAspect) == currentAspect # "none"

\* if (currentAspect !== nextAspect && currentAspect)
RecordsAspect(currentAspect, nextAspect) ==
    currentAspect # nextAspect /\ currentAspect # "none"

\* The body of the two loops over pairs for planets[i] and planets[j].
AspectStep(planets, i, j, day, ayanamsa, language) ==
    LET current1 == CalculatePlanetaryPosition(planets[i], DayStart(day), ayanamsa)
        current2 == CalculatePlanetaryPosition(planets[j], DayStart(day), ayanamsa)
        next1 == CalculatePlanetaryPosition(planets[i], DayStart(day + 1), ayanamsa)
        next2 == CalculatePlanetaryPosition(planets[j], DayStart(day + 1), ayanamsa)
        currentAspect == CheckAspect(current1.siderealLongitude,
                                     current2.siderealLongitude)
        nextAspect == CheckAspect(next1.siderealLongitude, next2.siderealLongitude)
    IN  IF RecordsAspect(currentAspect, nextAspect)
        THEN <<[planet |-> planets[i], eventType |-> "aspect",
                date |-> FormatDate(DayStart(day)),
                degree |-> current1.siderealLongitude,
                rashi |-> GetRashiTransit(current1.siderealLongitude, language),
                isRetrograde |-> "absent",
                aspect |-> [type |-> AspectLabel(currentAspect, language),
                            planet |-> planets[j],
                            degree |-> current2.siderealLongitude]]>>
        ELSE <<>>

\* for (i ...) for (j = i + 1 ...): the events pushed from the pair (i, j) on.
RECURSIVE AspectSteps(_, _, _, _, _, _)
AspectSteps(planets, i, j, day, ayanamsa, language) ==
    IF i > Len(planets) THEN <<>>
    ELSE IF j > Len(planets)
    THEN AspectSteps(planets, i + 1, i + 2, day, ayanamsa, language)
    ELSE AspectStep(planets, i, j, day, ayanamsa, language)
            \o AspectSteps(planets, i, j + 1, day, ayanamsa, language)

\* transits.sort((a, b) => new Date(a.date).getTime() - new Date(b.date)
\* .getTime()): a stable sort by date.
RECURSIVE InsertByDate(_, _)
InsertByDate(sorted, event) ==
    IF sorted = <<>> THEN <<event>>
    ELSE IF sorted[Len(sorted)].date <= event.date THEN Append(sorted, event)
    ELSE Append(InsertByDate(SubSeq(sorted, 1, Len(sorted) - 1), event),
                sorted[Len(sorted)])

\* The list left in the order of detection.
DetectionOrder(transits) == transits

RECURSIVE SortByDate(_)
SortByDate(transits) ==
    IF transits = <<>> THEN <<>>
    ELSE InsertByDate(SortByDate(SubSeq(transits, 1, Len(transits) - 1)),
                      transits[Len(transits)])

\* The motions the ephemeris may give the three bodies: the Sun near a degree
\* a day, the Moon near 13 degrees a day, Mars near half a degree a day,
\* direct or retrograde, with or without a station a day and a half into the
\* scan or two stations a day apart.  NoTurn lies after every instant the
\* scanner asks for.  No body crosses a sign boundary while retrograde; Mars
\* from 24 degrees crosses 0 degrees of the sidereal circle.
NoTurn == 20 * DayMs

SunMotions ==
    {[start |-> s, rate |-> 985647, turn |-> NoTurn, back |-> NoTurn] :
        s \in {34 * Deg, 53 * Deg + 600000, 83 * Deg + 186720}}

MoonMotions ==
    {[start |-> s, rate |-> 13176358, turn |-> NoTurn, back |-> NoTurn] :
        s \in {27 * Deg, 44 * Deg, 80 * Deg}}

MarsMotions ==
    {[start |-> s, rate |-> 524000, turn |-> NoTurn, back |-> NoTurn] :
        s \in {24 * Deg, 26 * Deg, 54 * Deg}}
    \cup {[start |-> 26 * Deg, rate |-> r, turn |-> DayMs + DayMs \div 2,
            back |-> NoTurn] :
              r \in {524000, -524000}}
    \cup {[start |-> 40 * Deg, rate |-> -524000, turn |-> NoTurn, back |-> NoTurn]}
    \cup {[start |-> 26 * Deg, rate |-> 524000, turn |-> DayMs, back |-> 2 * DayMs]}

Ephemerides == [Sun : SunMotions, Moon : MoonMotions, Mars : MarsMotions]

\* The ephemeris of a request that never reaches the scan.
DefaultEphemeris ==
    [Sun |-> [start |-> 34 * Deg, rate |-> 985647, turn |-> NoTurn, back |-> NoTurn],
     Moon |-> [start |-> 27 * Deg, rate |-> 13176358, turn |-> NoTurn, back |-> NoTurn],
     Mars |-> [start |-> 26 * Deg, rate |-> 524000, turn |-> NoTurn, back |-> NoTurn]]

\* The start instants of a scan, in whole days since 1950-01-01 (2024-04-16).
TransitStartDays == {27134}

\* The requests: the method, the Authorization header, the body and its
\* fields by what the handler tests of them; rangeDays is the number of days
\* from startDate to endDate.
TransitRequests ==
    [httpMethod : {"POST", "GET"},
     authorization : {"missing", "wrong", "valid"},
     body : {"missing", "json"},
     startDate : {"absent", "unparseable", "valid"},
     endDate : {"absent", "unparseable", "valid"},
     location : {"absent", "nonNumeric", "numeric"},
     timezone : {"absent", "unknown", "valid"},
     language : Languages,
     planets : {TransitPlanets},
     startDay : TransitStartDays,
     rangeDays : 0..MaxScanDays]

\* Whether the handler reaches the scan of the days.
TransitReachesScan(r) ==
    /\ r.httpMethod = "POST" /\ r.authorization = "valid" /\ r.body = "json"
    /\ r.startDate = "valid" /\ r.endDate = "valid" /\ r.location = "numeric"
    /\ r.timezone # "unknown" /\ r.rangeDays > 0

\* The requests whose fields the handler never reads carry default fields.
TransitRequestCanonical(r) ==
    /\ (r.httpMethod # "POST" \/ r.authorization # "valid" \/ r.body = "missing")
        => /\ r.startDate = "valid" /\ r.endDate = "valid"
           /\ r.location = "numeric" /\ r.timezone = "valid"
    /\ r.location = "absent"
        => r.startDate = "valid" /\ r.endDate = "valid" /\ r.timezone = "valid"
    /\ ~(/\ r.httpMethod = "POST" /\ r.authorization = "valid" /\ r.body = "json"
         /\ r.startDate = "valid" /\ r.endDate = "valid"
         /\ r.location = "numeric" /\ r.timezone # "unknown")
        => r.rangeDays = 1
    /\ ~TransitReachesScan(r) => r.language = "en"

\* The errors list of the handler's validation.
TransitValidationErrors(r) ==
    (IF r.startDate = "absent" THEN {"startDate is required"} ELSE {})
    \cup (IF r.endDate = "absent" THEN {"endDate is required"} ELSE {})
    \cup (IF r.location # "numeric"
          THEN {"Valid location with latitude and longitude is required"}
          ELSE {})
    \cup (IF r.timezone = "unknown" THEN {"Invalid timezone provided"} ELSE {})

TransitIdle ==
    /\ tRequest = [httpMethod |-> "GET"]
    /\ tEphemeris = DefaultEphemeris
    /\ tPc = "idle"
    /\ tAyanamsa = 0
    /\ tDay = 0
    /\ tTransits = <<>>
    /\ tStatus = 0

\* The handler up to the loop over the days: method, token, body, validation
\* (reading location.timezone of a missing location throws), the date range.
\* An unparseable date makes an invalid moment: the range test compares with
\* NaN and passes, and isSameOrBefore is false, so the loop is not entered.
TransitReceive ==
    /\ tPc = "received"
    /\ IF tRequest.httpMethod # "POST"
         THEN tStatus' = 405 /\ tPc' = "responded" /\ UNCHANGED tAyanamsa
       ELSE IF ~ValidateToken(tRequest)
         THEN tStatus' = 401 /\ tPc' = "responded" /\ UNCHANGED tAyanamsa
       ELSE IF tRequest.body = "missing" \/ tRequest.location = "absent"
         THEN tStatus' = 500 /\ tPc' = "responded" /\ UNCHANGED tAyanamsa
       ELSE IF TransitValidationErrors(tRequest) # {}
         THEN tStatus' = 400 /\ tPc' = "responded" /\ UNCHANGED tAyanamsa
       ELSE IF tRequest.startDate = "unparseable" \/ tRequest.endDate = "unparseable"
         THEN tStatus' = 200 /\ tPc' = "responded" /\ UNCHANGED tAyanamsa
       ELSE IF tRequest.rangeDays = 0
         THEN tStatus' = 500 /\ tPc' = "responded" /\ UNCHANGED tAyanamsa
       ELSE /\ tAyanamsa' = CalculateAyanamsa(tRequest.startDay)
            /\ tPc' = "scan"
            /\ UNCHANGED tStatus
    /\ UNCHANGED <<tRequest, tEphemeris, tDay, tTransits, transitOthers>>

\* One turn of the while loop: the loop over planets, the loops over pairs,
\* currentMoment.add(1, 'day'); an exception ends the handler with 500.
ScanDay ==
    /\ tPc = "scan"
    /\ DayStart(tDay) <= DayStart(tRequest.rangeDays)
    /\ LET steps == PlanetSteps(tRequest.planets, 1, tDay, tAyanamsa,
                                tRequest.language)
           aspects == AspectSteps(tRequest.planets, 1, 2, tDay, tAyanamsa,
                                  tRequest.language)
       IN  IF steps.throws
           THEN /\ tStatus' = 500
                /\ tPc' = "responded"
                /\ tTransits' = <<>>
                /\ UNCHANGED tDay
           ELSE /\ tTransits' = tTransits \o steps.events \o aspects
                /\ tDay' = tDay + 1
                /\ UNCHANGED <<tStatus, tPc>>
    /\ UNCHANGED <<tRequest, tEphemeris, tAyanamsa, transitOthers>>

\* After the loop: the sort and the 200 response.
SortAndRespond ==
    /\ tPc = "scan"
    /\ DayStart(tDay) > DayStart(tRequest.rangeDays)
    /\ tTransits' = SortByDate(tTransits)
    /\ tStatus' = 200
    /\ tPc' = "responded"
    /\ UNCHANGED <<tRequest, tEphemeris, tAyanamsa, tDay, transitOthers>>

(***************************************************************************)
(* getNakshatra: the three implementations                                 *)
(*                                                                         *)
(* With L the normalized sidereal longitude, the code's                    *)
(* normalizedLong * 27 / 360 is 3 L / 40 and its normalizedLong * 27 % 360 *)
(* is 9 * ((3 L) mod 40); the model keeps 3 L, in micro-degrees, so that a *)
(* mansion is NakshatraDen wide and every product stays below 2^31.        *)
(***************************************************************************)
Max(a, b) == IF a > b THEN a ELSE b

\* normalizedLong: ((moonLongitude - ayanamsa) % 360 + 360) % 360
NakshatraLong(moonLongitude, ayanamsa) == Normalize360(moonLongitude - ayanamsa)

\* nakshatraIndex = Math.floor(normalizedLong * 27 / 360)
NakshatraIndex(normalizedLong) == (3 * normalizedLong) \div NakshatraDen

\* (normalizedLong * 27 % 360) / 9
MansionTurn(normalizedLong) == (3 * normalizedLong) % NakshatraDen

\* astronomical.ts: nakshatraProgress = (normalizedLong * 27 % 360) / (360 / 27)
\* is 27 * MansionTurn / 40; pada = clamp(floor((nakshatraProgress % 1) * 4) + 1).
GetNakshatraUtils(moonLongitude, ayanamsa) ==
    LET normalizedLong == NakshatraLong(moonLongitude, ayanamsa)
        progressFrac == (27 * MansionTurn(normalizedLong)) % NakshatraDen
    IN  [index |-> NakshatraIndex(normalizedLong),
         pada |-> Min(Max((4 * progressFrac) \div NakshatraDen + 1, 1), 4)]

\* generateHoroscope.js: pada = floor((normalizedLong * 27 % 360) / (360/27/4)) + 1,
\* that is floor(9 * MansionTurn * 3 / 10) + 1.
GetNakshatraHoroscope(moonLongitude, ayanamsa) ==
    LET normalizedLong == NakshatraLong(moonLongitude, ayanamsa)
    IN  [index |-> NakshatraIndex(normalizedLong),
         pada |-> (27 * MansionTurn(normalizedLong)) \div (10 * Deg) + 1]

\* part_001: the same text as generateHoroscope.js.
GetNakshatraHelpers(moonLongitude, ayanamsa) ==
    LET normalizedLong == NakshatraLong(moonLongitude, ayanamsa)
    IN  [index |-> NakshatraIndex(normalizedLong),
         pada |-> (27 * MansionTurn(normalizedLong)) \div (10 * Deg) + 1]

\* Tropical longitudes every sixth of a degree, and two ayanamsa values.
NakshatraLongitudes == {k * (Deg \div 6) : k \in 0..2159}
NakshatraAyanamsas == {0, 23 * Deg + Deg \div 2}

NoNakshatra == [index |-> 0, pada |-> 0]

NakshatraIdle ==
    /\ nLongitude = 0
    /\ nAyanamsa = 0
    /\ nImpl = "none"
    /\ nInfo = NoNakshatra

CallGetNakshatraUtils ==
    /\ nImpl = "none"
    /\ nImpl' = "utils"
    /\ nInfo' = GetNakshatraUtils(nLongitude, nAyanamsa)
    /\ UNCHANGED <<nLongitude, nAyanamsa, nakshatraOthers>>

CallGetNakshatraHoroscope ==
    /\ nImpl = "none"
    /\ nImpl' = "horoscope"
    /\ nInfo' = GetNakshatraHoroscope(nLongitude, nAyanamsa)
    /\ UNCHANGED <<nLongitude, nAyanamsa, nakshatraOthers>>

CallGetNakshatraHelpers ==
    /\ nImpl = "none"
    /\ nImpl' = "helpers"
    /\ nInfo' = GetNakshatraHelpers(nLongitude, nAyanamsa)
    /\ UNCHANGED <<nLongitude, nAyanamsa, nakshatraOthers>>

(***************************************************************************)
(* calculateNavamsha and calculateD9Position (D9 endpoint)                 *)
(*                                                                         *)
(* padaLength is 10/3 degree, not a whole number of micro-degrees: the     *)
(* model divides three times the angle by 10 degrees instead.              *)
(***************************************************************************)
\* const padaOffset = { 0: 0, 1: 9, 2: 6, 3: 3, ..., 11: 3 }, by signGroup
padaOffset == [signGroup \in 0..11 |-> <<0, 9, 6, 3>>[(signGroup % 4) + 1]]

\* A table that starts the fixed and the dual signs from the wrong quarter.
padaOffsetSwapped == [signGroup \in 0..11 |-> <<0, 3, 6, 9>>[(signGroup % 4) + 1]]

NavamshaWith(offsets, longitude) ==
    LET rashi == FloorDiv(longitude, RashiWidth)
        degInRashi == JsRem(longitude, RashiWidth)
        padaNum == FloorDiv(3 * degInRashi, 10 * Deg)
        signGroup == rashi % 12
    IN  JsRem((IF signGroup \in DOMAIN offsets THEN offsets[signGroup] ELSE 0)
                  + padaNum, 12)

CalculateNavamshaSwapped(longitude) == NavamshaWith(padaOffsetSwapped, longitude)

\* calculateNavamsha(longitude)
CalculateNavamsha(longitude) == NavamshaWith(padaOffset, longitude)

\* calculateD9Position(longitude, ayanamsa): degree = (degInPada / padaLength)
\* * 30 is nine times degInPada, three times the tripled remainder.
CalculateD9Position(longitude, ayanamsa) ==
    LET siderealLong == JsRem(longitude - ayanamsa + Circle, Circle)
        degInRashi == JsRem(siderealLong, RashiWidth)
        degInPada3 == JsRem(3 * degInRashi, 10 * Deg)
    IN  [rashiIndex |-> CalculateNavamsha(siderealLong),
         degree |-> 3 * degInPada3]

\* Longitudes every third of a degree, rounded down and rounded up, so that
\* both sides of every 3 deg 20' boundary are met.
NavamshaLongitudes ==
    {k * (Deg \div 3) : k \in 0..1079} \cup {k * (Deg \div 3 + 1) : k \in 0..1079}

\* No correction, and the ayanamsa of the instants of ChartDays.
NavamshaAyanamsas == {0} \cup {CalculateAyanamsa(d) : d \in ChartDays}

NoPosition == [rashiIndex |-> 0, degree |-> 0]

NavamshaIdle ==
    /\ vLongitude = 0
    /\ vAyanamsa = 0
    /\ vPc = "idle"
    /\ vPosition = NoPosition

CallCalculateD9Position ==
    /\ vPc = "call"
    /\ vPc' = "done"
    /\ vPosition' = CalculateD9Position(vLongitude, vAyanamsa)
    /\ UNCHANGED <<vLongitude, vAyanamsa, navamshaOthers>>

(***************************************************************************)
(* The other functions: D9, dasha, horoscope and the helpers' handler      *)
(*                                                                         *)
(* A request is routed to one function, whose handler answers it in one    *)
(* step.  The ephemeris and the Ascendant computation are collaborators:   *)
(* a world fixes the longitudes they give for the request's instant.       *)
(***************************************************************************)
\* The Authorization headers a request may carry, and the token
\* authHeader.split(' ')[1] of those that start with 'Bearer '.
AuthHeaders == {"none", "Basic s3cret", "Bearer wrong", "Bearer s3cret"}

StartsWithBearer(authHeader) == authHeader \in {"Bearer wrong", "Bearer s3cret"}

TokenOf(authHeader) == IF authHeader = "Bearer s3cret" THEN "s3cret" ELSE "wrong"

\* process.env.IRUASTRO_ACCESS_TOKEN: not set, or the secret.
Secrets == {"undefined", "s3cret"}

\* validateToken(event) of part_002, dasha.ts and generateHoroscope.js
ValidateTokenOf(authHeader, secret) ==
    IF authHeader = "none" \/ ~StartsWithBearer(authHeader) THEN FALSE
    ELSE TokenOf(authHeader) = secret

\* The requests: the method, the Authorization header, the body and its
\* fields by what the handlers test of them.  A numeric location is in range
\* or has a latitude outside [-90, 90] or a longitude outside [-180, 180].
FnLocations == {"absent", "nonNumeric", "inRange", "latitude95", "longitude200"}

FnRequests ==
    [httpMethod : {"POST", "GET"},
     authorization : AuthHeaders,
     body : {"missing", "malformed", "json"},
     dob : {"absent", "unparseable", "valid"},
     time : {"absent", "valid"},
     location : FnLocations,
     language : Languages,
     days : ChartDays]

\* The requests whose body is not read carry default fields.
FnRequestCanonical(r) ==
    (r.httpMethod # "POST" \/ r.body # "json")
        => /\ r.dob = "valid" /\ r.time = "valid" /\ r.location = "inRange"
           /\ r.language = "en" /\ r.days = 0

\* What the ephemeris gives for the request's instant: ecliptic.elon of the
\* seven bodies, 51 degrees and a fraction apart, and the Ascendant.
FnWorld(base) ==
    [elon |-> [p \in Planets |->
                  (base + IndexOf(ChartPlanets, p) * (51 * Deg + 428571)) % Circle],
     ascendant |-> (3 * base + 100 * Deg) % Circle]

FnWorlds == {FnWorld(k * 17 * Deg) : k \in 0..2}

NoPayload == [kind |-> "none"]

Response(statusCode, message, errors, payload) ==
    [statusCode |-> statusCode, message |-> message, errors |-> errors,
     payload |-> payload]

MethodNotAllowed == Response(405, "Only POST requests are allowed", <<>>, NoPayload)

Unauthorized ==
    Response(401, "Unauthorized access. Please provide a valid Bearer token.",
             <<>>, NoPayload)

\* The catch block: 500 with error.message.
InternalError(message) == Response(500, message, <<>>, NoPayload)

ValidationErrors(errors) == Response(400, "Validation errors", errors, NoPayload)

\* errors of part_002, dasha.ts and generateHoroscope.js: dob, time, and one
\* message for a location that is absent or not numeric.
TokenedValidation(r) ==
    (IF r.dob = "absent" THEN <<"dob is required">> ELSE <<>>)
    \o (IF r.time = "absent" THEN <<"time is required">> ELSE <<>>)
    \o (IF r.location \in {"absent", "nonNumeric"}
        THEN <<"Valid location.latitude and location.longitude are required">>
        ELSE <<>>)

\* The D9 handler's mean node: 125.0445479 - 1934.1362891 T + 0.0020754 T^2
\* + T^3 / 467441, with T = (2 * days - 36525) / 73050 as in MeanNode.
D9MeanNode(days) ==
    LET x == 2 * days - 36525
        sq == MulDivFloor(x, x, 73050)
        cu == MulDivFloor(sq, x, 73050)
    IN  125044548 - MulDivFloor(x, 1934136289, 73050)
            + MulDivFloor(sq, 20754, 730500)
            + MulDivFloor(cu, 1000, 34146565)

\* getDignity(planet, rashiIndex, language) of part_002: Own Sign or Normal.
GetDignityD9(planet, rashiIndex, language) ==
    LET standardRashi == ZodiacSigns[rashiIndex + 1]
    IN  IF planetaryRulers[planet] = standardRashi \/ SecondOwnSign(planet, standardRashi)
        THEN (IF language = "si" THEN "si:svakshetra" ELSE "Own Sign")
        ELSE (IF language = "si" THEN "si:samanya" ELSE "Normal")

\* One entry of planetaryD9Positions for a body of the planets list.
D9Entry(planet, elon, ayanamsa, language) ==
    [rashi |-> GetRashiName(CalculateD9Position(elon, ayanamsa).rashiIndex, language),
     degree |-> CalculateD9Position(elon, ayanamsa).degree,
     dignity |-> GetDignityD9(planet, CalculateD9Position(elon, ayanamsa).rashiIndex,
                              language)]

\* calculateNodeD9Position(longitude): rashiIndex: 2, degree: (degInRashi %
\* navamshaLength) * 9.
CalculateNodeD9Position(longitude) ==
    [rashiIndex |-> 2,
     degree |-> 3 * JsRem(3 * JsRem(longitude, RashiWidth), 10 * Deg)]

\* ketuSidereal of the D9 handler: ketuBasePosition = meanNode.
D9KetuSidereal(days, ayanamsa) ==
    JsRem(Normalize360(D9MeanNode(days)) - ayanamsa + Circle, Circle)

\* rahuSidereal of the D9 handler: rahuBasePosition = (meanNode + 180) % 360.
D9RahuSidereal(days, ayanamsa) ==
    JsRem(JsRem(Normalize360(D9MeanNode(days)) + 180 * Deg, Circle) - ayanamsa + Circle,
          Circle)

\* The entries of Rahu and Ketu: Rahu six signs from Ketu, with Ketu's degree.
D9NodeEntry(rashiIndex, degree, language) ==
    [rashi |-> GetRashiName(rashiIndex, language),
     degree |-> degree,
     dignity |-> IF language = "si" THEN "si:madhyastha" ELSE "Neutral"]

D9Positions(r, world, ayanamsa) ==
    [b \in Planets \cup {"Rahu", "Ketu"} |->
        IF b = "Ketu"
        THEN D9NodeEntry(CalculateNodeD9Position(D9KetuSidereal(r.days, ayanamsa)).rashiIndex,
                         CalculateNodeD9Position(D9KetuSidereal(r.days, ayanamsa)).degree,
                         r.language)
        ELSE IF b = "Rahu"
        THEN D9NodeEntry(
                 (CalculateNodeD9Position(D9KetuSidereal(r.days, ayanamsa)).rashiIndex + 6) % 12,
                 CalculateNodeD9Position(D9KetuSidereal(r.days, ayanamsa)).degree,
                 r.language)
        ELSE D9Entry(b, world.elon[b], ayanamsa, r.language)]

\* The body of the 200 response.
D9Payload(r, world) ==
    [kind |-> "d9",
     ayanamsa |-> CalculateAyanamsa(r.days),
     d9Lagna |->
        [rashi |-> GetRashiName(
                       CalculateD9Position(world.ascendant,
                                           CalculateAyanamsa(r.days)).rashiIndex,
                       r.language),
         degree |-> CalculateD9Position(world.ascendant,
                                        CalculateAyanamsa(r.days)).degree],
     planetaryD9Positions |-> D9Positions(r, world, CalculateAyanamsa(r.days))]

\* The D9 handler: method, token, body, validation, date, observer, chart.
D9Answer(r, secret, world, observer) ==
    IF r.httpMethod # "POST" THEN MethodNotAllowed
    ELSE IF ~ValidateTokenOf(r.authorization, secret) THEN Unauthorized
    ELSE IF r.body = "missing" THEN InternalError("Request body is missing")
    ELSE IF r.body = "malformed" THEN InternalError("Unexpected token")
    ELSE IF TokenedValidation(r) # <<>> THEN ValidationErrors(TokenedValidation(r))
    ELSE IF r.dob = "unparseable" THEN InternalError("Invalid date or time format")
    ELSE IF observer = "throws" THEN InternalError("An unexpected error occurred")
    ELSE Response(200,
                  IF r.language = "si" THEN "si:success_message"
                  ELSE "Navamsha chart calculated successfully",
                  <<>>, D9Payload(r, world))

NoResponse == Response(0, "", <<>>, NoPayload)

FnIdle ==
    /\ fnName = "none"
    /\ fnRequest = [httpMethod |-> "GET"]
    /\ fnSecret = "undefined"
    /\ fnEphemeris = FnWorld(0)
    /\ fnResponse = NoResponse

D9Handler ==
    /\ fnName = "d9"
    /\ fnResponse = NoResponse
    /\ \E observer \in ObserverOutcomes(fnRequest) :
          fnResponse' = D9Answer(fnRequest, fnSecret, fnEphemeris, observer)
    /\ UNCHANGED <<fnName, fnRequest, fnSecret, fnEphemeris, fnOthers>>

\* calculateDashaPeriods(dateTime, moonDegree, language): the nine periods,
\* dates in months from the birth instant.
RECURSIVE DashasFrom(_, _, _)
DashasFrom(i, currentDate, moonDegree) ==
    IF i = 9 THEN <<>>
    ELSE <<DashaPeriod(i, currentDate, moonDegree)>>
            \o DashasFrom(i + 1, DashaPeriod(i, currentDate, moonDegree).endDate,
                          moonDegree)

CalculateDashaPeriods(moonDegree) == DashasFrom(0, 0, moonDegree)

\* The dasha handler: method, token, body, validation, date, Moon, periods.
\* moonSiderealLong = (moonEcliptic.elon - ayanamsa + 360) % 360; the location
\* is validated and not used.
DashaAnswer(r, secret, world) ==
    IF r.httpMethod # "POST" THEN MethodNotAllowed
    ELSE IF ~ValidateTokenOf(r.authorization, secret) THEN Unauthorized
    ELSE IF r.body = "missing" THEN InternalError("Request body is missing")
    ELSE IF r.body = "malformed" THEN InternalError("Unexpected token")
    ELSE IF TokenedValidation(r) # <<>> THEN ValidationErrors(TokenedValidation(r))
    ELSE IF r.dob = "unparseable" THEN InternalError("Invalid date or time format")
    ELSE Response(200,
                  IF r.language = "si" THEN "si:dasha_success"
                  ELSE "Dasha periods calculated successfully",
                  <<>>,
                  [kind |-> "dasha",
                   mainDasha |-> CalculateDashaPeriods(
                       JsRem(world.elon["Moon"] - CalculateAyanamsa(r.days) + Circle,
                             Circle))])

DashaHandler ==
    /\ fnName = "dasha"
    /\ fnResponse = NoResponse
    /\ fnResponse' = DashaAnswer(fnRequest, fnSecret, fnEphemeris)
    /\ UNCHANGED <<fnName, fnRequest, fnSecret, fnEphemeris, fnOthers>>

\* getRashi(eclipticLongitude, ayanamsa) of generateHoroscope.js and part_001
GetRashiJs(eclipticLongitude, ayanamsa) ==
    LET normalizedInput == Normalize360(eclipticLongitude)
        siderealLong == Normalize360(normalizedInput - ayanamsa)
    IN  [rashi |-> RashisEn[FloorDiv(siderealLong, RashiWidth) + 1],
         longitude |-> JsRem(siderealLong, RashiWidth),
         absoluteLongitude |-> siderealLong,
         rashiNumber |-> FloorDiv(siderealLong, RashiWidth) + 1,
         siderealPosition |-> siderealLong,
         tropicalPosition |-> normalizedInput,
         appliedAyanamsa |-> ayanamsa]

\* calculateLunarNodes(dateTime) of generateHoroscope.js and part_001: the
\* text of astronomical.ts.
CalculateLunarNodesJs(days) ==
    LET meanNode == Normalize360(MeanNode(days))
    IN  [rahu |-> meanNode, ketu |-> JsRem(meanNode + 180 * Deg, Circle)]

\* planetaryPositions[..] = { ...rashiInfo, tropical_longitude, sidereal_longitude, .. }
JsEntry(tropical, ayanamsa) ==
    [rashiInfo |-> GetRashiJs(tropical, ayanamsa),
     tropical_longitude |-> tropical,
     sidereal_longitude |-> GetRashiJs(tropical, ayanamsa).absoluteLongitude]

JsPositions(r, world, ayanamsa) ==
    [b \in Planets \cup {"Rahu", "Ketu"} |->
        IF b = "Rahu" THEN JsEntry(CalculateLunarNodesJs(r.days).rahu, ayanamsa)
        ELSE IF b = "Ketu" THEN JsEntry(CalculateLunarNodesJs(r.days).ketu, ayanamsa)
        ELSE JsEntry(world.elon[b], ayanamsa)]

\* The body of the 200 response of generateHoroscope.js and of part_001.
JsPayload(r, world, moonNakshatra) ==
    [kind |-> "horoscope",
     ayanamsa |-> CalculateAyanamsa(r.days),
     lagna |-> [rashiInfo |-> GetRashiJs(world.ascendant, CalculateAyanamsa(r.days)),
                absoluteLongitude |-> world.ascendant],
     moonNakshatra |-> moonNakshatra,
     planetaryPositions |-> JsPositions(r, world, CalculateAyanamsa(r.days))]

\* The handler of generateHoroscope.js.
HoroscopeAnswer(r, secret, world, observer) ==
    IF r.httpMethod # "POST" THEN MethodNotAllowed
    ELSE IF ~ValidateTokenOf(r.authorization, secret) THEN Unauthorized
    ELSE IF r.body = "missing" THEN InternalError("Request body is missing")
    ELSE IF r.body = "malformed" THEN InternalError("Unexpected token")
    ELSE IF TokenedValidation(r) # <<>> THEN ValidationErrors(TokenedValidation(r))
    ELSE IF r.dob = "unparseable" THEN InternalError("Invalid date or time format")
    ELSE IF observer = "throws" THEN InternalError("undefined")
    ELSE Response(200, "Vedic horoscope calculated successfully", <<>>,
                  JsPayload(r, world,
                            GetNakshatraHoroscope(world.elon["Moon"],
                                                  CalculateAyanamsa(r.days))))

HoroscopeHandler ==
    /\ fnName = "horoscope"
    /\ fnResponse = NoResponse
    /\ \E observer \in ObserverOutcomes(fnRequest) :
          fnResponse' = HoroscopeAnswer(fnRequest, fnSecret, fnEphemeris, observer)
    /\ UNCHANGED <<fnName, fnRequest, fnSecret, fnEphemeris, fnOthers>>

\* errors of part_001: a message per field, the types and the ranges of the
\* location (a value that is not a number is in no range comparison true).
HelpersValidation(r) ==
    (IF r.dob = "absent" THEN <<"dob is required">> ELSE <<>>)
    \o (IF r.time = "absent" THEN <<"time is required">> ELSE <<>>)
    \o (IF r.location = "absent" THEN <<"location is required">> ELSE <<>>)
    \o (IF r.location = "nonNumeric"
        THEN <<"location.latitude must be a number",
               "location.longitude must be a number">>
        ELSE <<>>)
    \o (IF r.location = "latitude95"
        THEN <<"latitude must be between -90 and 90">> ELSE <<>>)
    \o (IF r.location = "longitude200"
        THEN <<"longitude must be between -180 and 180">> ELSE <<>>)

\* The handler of part_001: no token is asked for.
HelpersAnswer(r, world) ==
    IF r.httpMethod # "POST" THEN MethodNotAllowed
    ELSE IF r.body = "missing" THEN
        Response(500, "Error generating Vedic horoscope",
                 <<"Request body is missing">>, NoPayload)
    ELSE IF r.body = "malformed" THEN
        Response(500, "Error generating Vedic horoscope", <<"Unexpected token">>,
                 NoPayload)
    ELSE IF HelpersValidation(r) # <<>> THEN ValidationErrors(HelpersValidation(r))
    ELSE IF r.dob = "unparseable" THEN
        Response(500, "Error generating Vedic horoscope",
                 <<"Invalid date or time format. Use YYYY-MM-DD for date and HH:mm for time (24-hour format)">>,
                 NoPayload)
    ELSE Response(200, "Vedic horoscope calculated successfully", <<>>,
                  JsPayload(r, world,
                            GetNakshatraHelpers(world.elon["Moon"],
                                                CalculateAyanamsa(r.days))))

HelpersHandler ==
    /\ fnName = "helpers"
    /\ fnResponse = NoResponse
    /\ fnResponse' = HelpersAnswer(fnRequest, fnEphemeris)
    /\ UNCHANGED <<fnName, fnRequest, fnSecret, fnEphemeris, fnOthers>>

(***************************************************************************)
(* calculateYogas (netlify/functions/yoga.ts)                              *)
(*                                                                         *)
(* planetaryPositions holds the sidereal longitude, in [0, 360), of the    *)
(* seven planets and of the Ascendant, in the order the handler inserts    *)
(* them.  A yoga record is kept by the key of its translation entry; its   *)
(* description, significance and effect are fixed by that key.             *)
(***************************************************************************)

KENDRAS == {1, 4, 7, 10}
TRIKONAS == {1, 5, 9}
DUSTHANAS == {6, 8, 12}

OWN_SIGNS ==
    [Mars |-> {"Aries", "Scorpio"}, Mercury |-> {"Gemini", "Virgo"},
     Jupiter |-> {"Sagittarius", "Pisces"}, Venus |-> {"Taurus", "Libra"},
     Saturn |-> {"Capricorn", "Aquarius"}, Sun |-> {"Leo"}, Moon |-> {"Cancer"}]

EXALTATION_SIGNS ==
    [Sun |-> "Aries", Moon |-> "Taurus", Mars |-> "Capricorn",
     Mercury |-> "Virgo", Jupiter |-> "Cancer", Venus |-> "Pisces",
     Saturn |-> "Libra"]

BENEFICS == <<"Jupiter", "Venus", "Mercury", "Moon">>

\* Object.keys(planetaryPositions)
PositionKeys ==
    <<"Sun", "Moon", "Mercury", "Venus", "Mars", "Jupiter", "Saturn", "Ascendant">>

\* getRashi(longitude) of yoga.ts
GetRashiYoga(longitude) == FloorDiv(Normalize360(longitude), RashiWidth)

\* getZodiacSign(position)
GetZodiacSign(position) ==
    ZodiacSigns[FloorDiv(Normalize360(position), RashiWidth) + 1]

\* isInKendra(longitude, ascendantLongitude)
IsInKendra(longitude, ascendantLongitude) ==
    GetHouseYoga(longitude, ascendantLongitude) \in KENDRAS

\* isInTrikona(position)
IsInTrikona(position) == FloorDiv(position, RashiWidth) + 1 \in TRIKONAS

\* getHouseFromMoon(moonPosition, planetPosition)
GetHouseFromMoon(moonPosition, planetPosition) ==
    JsRem(FloorDiv(planetPosition - moonPosition + Circle, RashiWidth), 12) + 1

\* checkPlanetInOwnSign(planet, position)
CheckPlanetInOwnSign(planet, position) ==
    GetZodiacSign(position) \in OWN_SIGNS[planet]

\* checkPlanetInExaltation(planet, position)
CheckPlanetInExaltation(planet, position) ==
    EXALTATION_SIGNS[planet] = GetZodiacSign(position)

\* yogas.push({name: translations[lang].yogas[key].name, ..., strength, planets})
YogaRecord(key, lang, strength, planets) ==
    <<[name |-> IF lang = "si" THEN "si:" \o key ELSE key,
       strength |-> strength, planets |-> planets]>>

\* Ruchaka (Mars), Hamsa (Jupiter) and Sasha (Saturn) Yoga: one text for the
\* three planets.
MahapurushaYoga(key, planet, p, lang) ==
    IF /\ \/ CheckPlanetInOwnSign(planet, p[planet])
          \/ CheckPlanetInExaltation(planet, p[planet])
       /\ IsInKendra(p[planet], p["Ascendant"])
    THEN YogaRecord(key, lang,
                    IF CheckPlanetInExaltation(planet, p[planet]) THEN "Strong"
                    ELSE "Medium",
                    <<planet>>)
    ELSE <<>>

\* Bhadra Yoga (Mercury)
BhadraYoga(p, lang) ==
    LET mercuryLongitude == JsRem(p["Mercury"] + Circle, Circle)
        mercuryHouse == GetHouseYoga(mercuryLongitude, p["Ascendant"])
        mercuryRashiName == ZodiacSigns[GetRashiYoga(mercuryLongitude) + 1]
    IN  IF /\ mercuryHouse \in KENDRAS
           /\ \/ mercuryRashiName \in OWN_SIGNS["Mercury"]
              \/ EXALTATION_SIGNS["Mercury"] = mercuryRashiName
        THEN YogaRecord("BhadraYoga", lang,
                        IF EXALTATION_SIGNS["Mercury"] = mercuryRashiName
                        THEN "Strong" ELSE "Strong",
                        <<"Mercury">>)
        ELSE <<>>

\* Malavya Yoga (Venus)
MalavyaYoga(p, lang) ==
    LET venusLongitude == JsRem(p["Venus"] + Circle, Circle)
        venusHouse == GetHouseYoga(venusLongitude, p["Ascendant"])
        venusRashiName == ZodiacSigns[GetRashiYoga(venusLongitude) + 1]
        isInKendraHouse == venusHouse \in KENDRAS
        isInOwnSign == venusRashiName \in OWN_SIGNS["Venus"]
        isInExaltation == EXALTATION_SIGNS["Venus"] = venusRashiName
    IN  IF isInKendraHouse /\ (isInOwnSign \/ isInExaltation)
        THEN YogaRecord("MalavyaYoga", lang,
                        IF isInExaltation THEN "Strong" ELSE "Medium",
                        <<"Venus">>)
        ELSE <<>>

\* Mahabhagya Yoga (Venus and Jupiter)
MahabhagyaYoga(p, lang) ==
    IF /\ Abs(p["Venus"] - p["Jupiter"]) < 10 * Deg
       /\ \/ IsInKendra(p["Venus"], p["Ascendant"])
          \/ IsInTrikona(p["Venus"])
    THEN YogaRecord("MahabhagyaYoga", lang, "Strong", <<"Venus", "Jupiter">>)
    ELSE <<>>

\* Kesari Yoga (Jupiter in Kendra from Moon)
KesariYoga(p, lang) ==
    IF GetHouseFromMoon(p["Moon"], p["Jupiter"]) \in KENDRAS
    THEN YogaRecord("KesariYoga", lang, "Medium", <<"Jupiter", "Moon">>)
    ELSE <<>>

\* const tenthHouseFromMoon = (getHouseFromMoon(planetaryPositions['Moon'], 0) + 9) % 12 + 1
TenthHouseFromMoon(p) == JsRem(GetHouseFromMoon(p["Moon"], 0) + 9, 12) + 1

\* Amala Yoga: for (const planet of BENEFICS) { if (...) { push; break } }
AmalaYoga(p, lang) ==
    LET hits == {i \in 1..Len(BENEFICS) :
                    GetHouseFromMoon(p["Moon"], p[BENEFICS[i]])
                        = TenthHouseFromMoon(p)}
    IN  IF hits = {} THEN <<>>
        ELSE YogaRecord("AmalaYoga", lang, "Medium",
                        <<BENEFICS[FirstOf(hits, 0)], "Moon">>)

\* Raja Yoga (Jupiter and Saturn close to each other)
RajaYoga(p, lang) ==
    IF Abs(p["Jupiter"] - p["Saturn"]) < 10 * Deg
    THEN YogaRecord("RajaYoga", lang, "Strong", <<"Jupiter", "Saturn">>)
    ELSE <<>>

\* Gaja Kesari Yoga (Jupiter and Moon)
GajaKesariYoga(p, lang) ==
    IF Abs(p["Jupiter"] - p["Moon"]) < 120 * Deg
    THEN YogaRecord("GajaKesariYoga", lang,
                    IF Abs(p["Jupiter"] - p["Moon"]) < 30 * Deg THEN "Strong"
                    ELSE "Medium",
                    <<"Jupiter", "Moon">>)
    ELSE <<>>

\* Budha Aditya Yoga (Mercury and Sun)
BudhaAdityaYoga(p, lang) ==
    IF Abs(p["Mercury"] - p["Sun"]) < 15 * Deg
    THEN YogaRecord("BudhaAdityaYoga", lang,
                    IF Abs(p["Mercury"] - p["Sun"]) < 5 * Deg THEN "Strong"
                    ELSE "Medium",
                    <<"Mercury", "Sun">>)
    ELSE <<>>

\* Dhana Yoga (Benefics in wealth houses)
DhanaYoga(p, lang) ==
    IF \E i \in 1..Len(BENEFICS) :
          GetHouseYoga(p[BENEFICS[i]], p["Ascendant"]) \in {2, 5, 9, 11}
    THEN YogaRecord("DhanaYoga", lang, "Medium", BENEFICS)
    ELSE <<>>

\* One turn of the loop of Neecha Bhanga Raja Yoga
NeechaBhangaOf(planet, p, lang) ==
    IF /\ EXALTATION_SIGNS[planet] = GetZodiacSign(p[planet])
       /\ IsInKendra(p[planet], p["Ascendant"])
    THEN YogaRecord("NeechaBhangaRajaYoga", lang, "Strong", <<planet>>)
    ELSE <<>>

\* for (const planet of planets) over Sun, Moon, Mars, Mercury, Jupiter,
\* Venus, Saturn
NeechaBhangaRajaYoga(p, lang) ==
    NeechaBhangaOf("Sun", p, lang) \o NeechaBhangaOf("Moon", p, lang)
        \o NeechaBhangaOf("Mars", p, lang) \o NeechaBhangaOf("Mercury", p, lang)
        \o NeechaBhangaOf("Jupiter", p, lang) \o NeechaBhangaOf("Venus", p, lang)
        \o NeechaBhangaOf("Saturn", p, lang)

\* Viparita Raja Yoga (Malefics in 6th, 8th, or 12th)
ViparitaRajaYoga(p, lang) ==
    LET InDusthana(planet) ==
            GetHouseYoga(p[planet], p["Ascendant"]) \in DUSTHANAS
        dusthanaLords == SelectSeq(<<"Mars", "Saturn", "Sun">>, InDusthana)
    IN  IF Len(dusthanaLords) >= 2
        THEN YogaRecord("ViparitaRajaYoga", lang,
                        IF Len(dusthanaLords) = 3 THEN "Strong" ELSE "Medium",
                        dusthanaLords)
        ELSE <<>>

\* Lakshmi Yoga: the "ninth lord" is the ninthHouse-th key of
\* planetaryPositions; past the eighth key it is undefined, the differences
\* are NaN and no benefic is within 10 degrees.
LakshmiYoga(p, lang) ==
    LET ninthHouse == JsRem(GetHouseYoga(0, p["Ascendant"]) + 8, 12) + 1
    IN  IF /\ ninthHouse <= Len(PositionKeys)
           /\ \E i \in 1..Len(BENEFICS) :
                 Abs(p[BENEFICS[i]] - p[PositionKeys[ninthHouse]]) < 10 * Deg
        THEN YogaRecord("LakshmiYoga", lang, "Strong",
                        Append(BENEFICS, PositionKeys[ninthHouse]))
        ELSE <<>>

\* calculateYogas(planetaryPositions, language)
CalculateYogas(p, language) ==
    LET lang == IF language = "si" THEN "si" ELSE "en"
    IN  MahapurushaYoga("RuchakaYoga", "Mars", p, lang)
            \o BhadraYoga(p, lang)
            \o MahapurushaYoga("HamsaYoga", "Jupiter", p, lang)
            \o MalavyaYoga(p, lang)
            \o MahapurushaYoga("SashaYoga", "Saturn", p, lang)
            \o MahabhagyaYoga(p, lang)
            \o KesariYoga(p, lang)
            \o AmalaYoga(p, lang)
            \o RajaYoga(p, lang)
            \o GajaKesariYoga(p, lang)
            \o BudhaAdityaYoga(p, lang)
            \o DhanaYoga(p, lang)
            \o NeechaBhangaRajaYoga(p, lang)
            \o ViparitaRajaYoga(p, lang)
            \o LakshmiYoga(p, lang)

\* The whole degrees of a set, as longitudes.
WholeDegrees(S) == {k * Deg : k \in S}

\* The positions calculateYogas is applied to: each body in an own sign, in
\* its exaltation sign or near 0 degrees of the circle.
YogaPositions ==
    [Sun : WholeDegrees({1, 65, 200}), Moon : WholeDegrees({0, 100, 285}),
     Mercury : WholeDegrees({70, 160, 357}), Venus : WholeDegrees({40, 340, 2}),
     Mars : WholeDegrees({10, 280, 130}), Jupiter : WholeDegrees({100, 250, 358}),
     Saturn : WholeDegrees({190, 275, 3}), Ascendant : WholeDegrees({5, 65})]

YogaIdle ==
    /\ yPositions = [Sun |-> 0, Moon |-> 0, Mercury |-> 0, Venus |-> 0,
                     Mars |-> 0, Jupiter |-> 0, Saturn |-> 0, Ascendant |-> 0]
    /\ yLanguage = "en"
    /\ yPc = "idle"
    /\ yYogas = <<>>

CallCalculateYogas ==
    /\ yPc = "call"
    /\ yPc' = "done"
    /\ yYogas' = CalculateYogas(yPositions, yLanguage)
    /\ UNCHANGED <<yPositions, yLanguage, yogaOthers>>

(***************************************************************************)
(* Specifications                                                          *)
(***************************************************************************)

HouseInit ==
    /\ hLongitude \in HouseLongitudes
    /\ hAscendant \in HouseLongitudes
    /\ hImpl = "none"
    /\ hHouse = 0
    /\ AspectIdle
    /\ DignityIdle
    /\ ChartIdle
    /\ DashaIdle
    /\ TransitIdle
    /\ NakshatraIdle
    /\ NavamshaIdle
    /\ FnIdle
    /\ YogaIdle

HouseNext == CallGetHouseUtils \/ CallGetHouseYoga \/ CallGetHouseHelpers

SpecHouse == HouseInit /\ [][HouseNext]_vars

AspectInit ==
    /\ aDeg1 \in AspectDeg1s
    /\ aDeg2 \in AspectDeg2s
    /\ aPc = "call"
    /\ aAspect = "none"
    /\ HouseIdle
    /\ DignityIdle
    /\ ChartIdle
    /\ DashaIdle
    /\ TransitIdle
    /\ NakshatraIdle
    /\ NavamshaIdle
    /\ FnIdle
    /\ YogaIdle

AspectNext == CallCheckAspect

SpecAspect == AspectInit /\ [][AspectNext]_vars

\* The rashi name the chart handler passes is getRashi(...).rashi, the name of
\* a sign index in the request's language.
DignityInit ==
    /\ gPlanet \in Planets
    /\ gLanguage \in Languages
    /\ \E index \in 0..11 : gRashi = GetRashiName(index, gLanguage)
    /\ gPc = "call"
    /\ gDignity = "none"
    /\ HouseIdle
    /\ AspectIdle
    /\ ChartIdle
    /\ DashaIdle
    /\ TransitIdle
    /\ NakshatraIdle
    /\ NavamshaIdle
    /\ FnIdle
    /\ YogaIdle

DignityNext == CallGetDignity

SpecDignity == DignityInit /\ [][DignityNext]_vars

ChartInit ==
    /\ cRequest \in {r \in ChartRequests : ChartRequestCanonical(r)}
    /\ cPc = "received"
    /\ cAyanamsa = 0
    /\ cElon = <<>>
    /\ cPositions = <<>>
    /\ cLagna = 0
    /\ cStatus = 0
    /\ HouseIdle
    /\ AspectIdle
    /\ DignityIdle
    /\ DashaIdle
    /\ TransitIdle
    /\ NakshatraIdle
    /\ NavamshaIdle
    /\ FnIdle
    /\ YogaIdle

ChartNext == ChartReceive \/ ChartPlanet \/ ChartNodes \/ ChartRespond

SpecChart == ChartInit /\ [][ChartNext]_vars

\* The birth instant is month 0.
DashaInit ==
    /\ dMoonDegree \in MoonDegrees
    /\ dPc = "loop"
    /\ dCurrentDate = 0
    /\ dDashas = <<>>
    /\ HouseIdle
    /\ AspectIdle
    /\ DignityIdle
    /\ ChartIdle
    /\ TransitIdle
    /\ NakshatraIdle
    /\ NavamshaIdle
    /\ FnIdle
    /\ YogaIdle

DashaNext == DashaLoop \/ DashaReturn

SpecDasha == DashaInit /\ [][DashaNext]_vars

TransitInit ==
    /\ tRequest \in {r \in TransitRequests : TransitRequestCanonical(r)}
    /\ tEphemeris \in Ephemerides
    /\ ~TransitReachesScan(tRequest) => tEphemeris = DefaultEphemeris
    /\ tPc = "received"
    /\ tAyanamsa = 0
    /\ tDay = 0
    /\ tTransits = <<>>
    /\ tStatus = 0
    /\ HouseIdle
    /\ AspectIdle
    /\ DignityIdle
    /\ ChartIdle
    /\ DashaIdle
    /\ NakshatraIdle
    /\ NavamshaIdle
    /\ FnIdle
    /\ YogaIdle

TransitNext == TransitReceive \/ ScanDay \/ SortAndRespond

SpecTransit == TransitInit /\ [][TransitNext]_vars

NakshatraInit ==
    /\ nLongitude \in NakshatraLongitudes
    /\ nAyanamsa \in NakshatraAyanamsas
    /\ nImpl = "none"
    /\ nInfo = NoNakshatra
    /\ HouseIdle
    /\ AspectIdle
    /\ DignityIdle
    /\ ChartIdle
    /\ DashaIdle
    /\ TransitIdle
    /\ NavamshaIdle
    /\ FnIdle
    /\ YogaIdle

NakshatraNext ==
    CallGetNakshatraUtils \/ CallGetNakshatraHoroscope \/ CallGetNakshatraHelpers

SpecNakshatra == NakshatraInit /\ [][NakshatraNext]_vars

NavamshaInit ==
    /\ vLongitude \in NavamshaLongitudes
    /\ vAyanamsa \in NavamshaAyanamsas
    /\ vPc = "call"
    /\ vPosition = NoPosition
    /\ HouseIdle
    /\ AspectIdle
    /\ DignityIdle
    /\ ChartIdle
    /\ DashaIdle
    /\ TransitIdle
    /\ NakshatraIdle
    /\ FnIdle
    /\ YogaIdle

NavamshaNext == CallCalculateD9Position

SpecNavamsha == NavamshaInit /\ [][NavamshaNext]_vars

YogaInit ==
    /\ yPositions \in YogaPositions
    /\ yLanguage \in Languages
    /\ yPc = "call"
    /\ yYogas = <<>>
    /\ HouseIdle
    /\ AspectIdle
    /\ DignityIdle
    /\ ChartIdle
    /\ DashaIdle
    /\ TransitIdle
    /\ NakshatraIdle
    /\ NavamshaIdle
    /\ FnIdle

YogaNext == CallCalculateYogas

SpecYoga == YogaInit /\ [][YogaNext]_vars

\* A request routed to the function called name.
FnInit(name) ==
    /\ fnName = name
    /\ fnRequest \in {r \in FnRequests : FnRequestCanonical(r)}
    /\ fnSecret \in Secrets
    /\ fnEphemeris \in FnWorlds
    /\ fnResponse = NoResponse
    /\ HouseIdle
    /\ AspectIdle
    /\ DignityIdle
    /\ ChartIdle
    /\ DashaIdle
    /\ TransitIdle
    /\ NakshatraIdle
    /\ NavamshaIdle
    /\ YogaIdle

D9Init == FnInit("d9")

D9Next == D9Handler

SpecD9 == D9Init /\ [][D9Next]_vars

\* One request at one of the endpoints: the chart, the transit scanner, or
\* one of the other functions.
FunctionNames == {"d9", "dasha", "horoscope", "helpers"}

EndpointsInit ==
    \/ ChartInit
    \/ TransitInit
    \/ \E name \in FunctionNames : FnInit(name)

EndpointsNext ==
    \/ ChartNext
    \/ TransitNext
    \/ D9Handler
    \/ DashaHandler
    \/ HoroscopeHandler
    \/ HelpersHandler

SpecEndpoints == EndpointsInit /\ [][EndpointsNext]_vars

(***************************************************************************)
(* Claims                                                                  *)
(***************************************************************************)

\* Wrap(x) = ((x mod 360) + 360) mod 360, the normalisation of the specification.
Wrap(x) == ((x % Circle) + Circle) % Circle

\* The tropical longitude behind each entry of planetaryPositions.
ChartTropical(body) ==
    IF body = "Rahu" THEN CalculateLunarNodes(cRequest.days).rahu
    ELSE IF body = "Ketu" THEN CalculateLunarNodes(cRequest.days).ketu
    ELSE cElon[IndexOf(ChartPlanets, body)]

\* C1: each degree reported for a body in the chart response is the wrapped
\* sidereal longitude: it equals Wrap(tropical - ayanamsa) and lies in
\* [0,360), also when the tropical longitude is smaller than the ayanamsa.
C1_DegreeIsWrappedSidereal ==
    \A body \in DOMAIN cPositions :
        /\ cPositions[body].degree = Wrap(ChartTropical(body) - cAyanamsa)
        /\ 0 <= cPositions[body].degree
        /\ cPositions[body].degree < Circle

\* C3: the Mahadashas form one gap-free, overlap-free chain: the first starts
\* at the birth instant and each later one starts where the one before ends.
C3_MahadashasContiguous ==
    /\ Len(dDashas) >= 1 => dDashas[1].startDate = 0
    /\ \A i \in 2..Len(dDashas) : dDashas[i].startDate = dDashas[i - 1].endDate

\* C3's case: the whole schedule of 9 periods, the first one shortened.
C3_Witness ==
    /\ dPc = "returned"
    /\ Len(dDashas) = 9
    /\ ProgressNum(dMoonDegree) > 0
    /\ dDashas[1].endDate - dDashas[1].startDate
            < 12 * dashaPeriods[dDashas[1].planet]
    /\ dDashas[9].startDate = dDashas[8].endDate

\* C4: the 9 Antardashas of every Mahadasha are contiguous, the first starts
\* at the Mahadasha's start, each lasts (tableYears / 120) of the Mahadasha's
\* span, and the last ends exactly at the Mahadasha's end.
C4_AntardashasPartitionMahadasha ==
    \A i \in 1..Len(dDashas) :
        LET maha == dDashas[i]
            sub == maha.antardasha
        IN  /\ Len(sub) = 9
            /\ sub[1].startDate = maha.startDate
            /\ \A j \in 2..9 : sub[j].startDate = sub[j - 1].endDate
            /\ \A j \in 1..9 :
                   TotalCycle * (sub[j].endDate - sub[j].startDate)
                       = dashaPeriods[sub[j].planet] * (maha.endDate - maha.startDate)
            /\ sub[9].endDate = maha.endDate

\* C5: the first Mahadasha lasts tableYears(currentLord) * (1 - progress), the
\* other eight their full table length, so the schedule spans
\* 120 - tableYears(currentLord) * progress years (all lengths in months here).
C5_FirstMahadashaIsRemainder ==
    dPc = "returned" =>
        LET lord == GetNakshatraLord(dMoonDegree)
            first == dDashas[1].endDate - dDashas[1].startDate
            \* 12 * tableYears * (1 - progress) and 12 * tableYears * progress
            \* months, as quotient and remainder by NakshatraDen
            remainder == MulDivQR(NakshatraDen - ProgressNum(dMoonDegree),
                                  12 * dashaPeriods[lord], NakshatraDen)
            consumed == MulDivQR(ProgressNum(dMoonDegree),
                                 12 * dashaPeriods[lord], NakshatraDen)
        IN  /\ remainder[2] = 0 /\ first = remainder[1]
            /\ \A i \in 2..9 :
                   dDashas[i].endDate - dDashas[i].startDate
                       = 12 * dashaPeriods[dDashas[i].planet]
            /\ consumed[2] = 0
            /\ dDashas[9].endDate - dDashas[1].startDate
                   = 12 * TotalCycle - consumed[1]

\* A Mahadasha (Rahu's 18 years, 216 months) whose 9 Antardashas, each rounded
\* to whole months, end a month after the Mahadasha does.
C4_Witness ==
    \E i \in 1..Len(dDashas) :
        /\ dDashas[i].planet = "Rahu"
        /\ dDashas[i].endDate - dDashas[i].startDate = 216
        /\ dDashas[i].antardasha[9].endDate = dDashas[i].endDate + 1

\* The sign index (0..11) of a longitude in [0,360).
SignIndex(longitude) == FloorDiv(longitude, RashiWidth)

\* C2: every getHouse implementation returns
\* ((floor(L/30) - floor(A/30) + 12) mod 12) + 1, a house in 1..12 counted from
\* the Ascendant's sign (so a body in the Ascendant's sign is in house 1).
C2_HouseCountedFromAscendantSign ==
    hImpl # "none" =>
        /\ hHouse = ((SignIndex(hLongitude) - SignIndex(hAscendant) + 12) % 12) + 1
        /\ hHouse \in 1..12

\* The circular separation min(|a-b|, 360-|a-b|) of two longitudes.
Separation(a, b) == Min(Abs(a - b), Circle - Abs(a - b))

\* The aspect whose target angle is within the orb of a separation, "none"
\* when there is none.
AspectOfSeparation(s) ==
    IF Abs(s) < Orb * Deg THEN "conjunction"
    ELSE IF Abs(s - 60 * Deg) < Orb * Deg THEN "sextile"
    ELSE IF Abs(s - 90 * Deg) < Orb * Deg THEN "square"
    ELSE IF Abs(s - 120 * Deg) < Orb * Deg THEN "trine"
    ELSE IF Abs(s - 180 * Deg) < Orb * Deg THEN "opposition"
    ELSE "none"

\* C9: checkAspect classifies by the circular separation of the two
\* longitudes alone: the aspect whose target angle is within the 8 degree orb
\* of min(|a-b|, 360-|a-b|), and no aspect when none is.
C9_AspectBySeparation ==
    aPc = "done" => aAspect = AspectOfSeparation(Separation(aDeg1, aDeg2))

\* The western sign a rashi name of the given language stands for.
SignOfRashiName(rashi, language) ==
    ZodiacSigns[IndexOf(IF language = "si" THEN RashisSi ELSE RashisEn, rashi)]

\* C10: getDignity's checks are in strict priority order: a planet in its
\* exaltation sign is Exalted (also when it owns that sign), a planet in its
\* debilitation sign is Debilitated, and Own Sign is reported only when the
\* sign is neither the exaltation nor the debilitation sign.
C10_DignityPriority ==
    gPc = "done" =>
        LET sign == SignOfRashiName(gRashi, gLanguage)
        IN  /\ planetaryExaltation[gPlanet] = sign
                => gDignity = DignityLabel("Exalted", gLanguage)
            /\ (planetaryDebilitation[gPlanet] = sign
                    /\ planetaryExaltation[gPlanet] # sign)
                => gDignity = DignityLabel("Debilitated", gLanguage)
            /\ gDignity = DignityLabel("Own Sign", gLanguage)
                => /\ planetaryExaltation[gPlanet] # sign
                   /\ planetaryDebilitation[gPlanet] # sign

\* C10's case: Mercury in Virgo, its exaltation sign and one of its own signs,
\* reported Exalted.
C10_Witness ==
    /\ gPc = "done"
    /\ gPlanet = "Mercury"
    /\ SignOfRashiName(gRashi, gLanguage) = "Virgo"
    /\ SecondOwnSign(gPlanet, "Virgo")
    /\ gDignity = DignityLabel("Exalted", gLanguage)

\* The sidereal longitude of the k-th body of the request's list at the start
\* of scan day d.
ScanLongitude(k, d) ==
    CalculatePlanetaryPosition(tRequest.planets[k], DayStart(d),
                               tAyanamsa).siderealLongitude

\* The aspect the i-th and j-th body hold on scan day d.
AspectOn(i, j, d) == CheckAspect(ScanLongitude(i, d), ScanLongitude(j, d))

\* The aspect events of the pair dated on the days s..e.
AspectEventsIn(i, j, s, e) ==
    {n \in 1..Len(tTransits) :
        /\ tTransits[n].eventType = "aspect"
        /\ tTransits[n].planet = tRequest.planets[i]
        /\ tTransits[n].aspect.planet = tRequest.planets[j]
        /\ \E d \in s..e : tTransits[n].date = DayStart(d)}

\* The days s..e are a maximal run of the scanned days 0..tDay-1 on which the
\* pair holds one and the same aspect.
IsAspectRun(i, j, s, e) ==
    /\ AspectOn(i, j, s) # "none"
    /\ \A d \in s..e : AspectOn(i, j, d) = AspectOn(i, j, s)
    /\ s = 0 \/ AspectOn(i, j, s - 1) # AspectOn(i, j, s)
    /\ e = tDay - 1 \/ AspectOn(i, j, e + 1) # AspectOn(i, j, s)

\* C6: for every pair of tracked bodies and every maximal run of consecutive
\* scan days on which the pair holds the same aspect, at most one aspect event
\* is emitted for the run, and exactly one when the aspect is absent or
\* different on the day after the run.
C6_OneAspectEventPerRun ==
    (tPc \in {"scan", "responded"} /\ tStatus # 500) =>
        \A i \in 1..Len(tRequest.planets) : \A j \in (i + 1)..Len(tRequest.planets) :
        \A s \in 0..(tDay - 1) : \A e \in s..(tDay - 1) :
            IsAspectRun(i, j, s, e) =>
                /\ Cardinality(AspectEventsIn(i, j, s, e)) <= 1
                /\ AspectOn(i, j, e + 1) # AspectOn(i, j, s)
                       => Cardinality(AspectEventsIn(i, j, s, e)) = 1

\* A finished scan in which a pair held one aspect for two or more days, lost
\* it within the scan, and the run has its one event.
C6_Witness ==
    /\ tPc = "responded" /\ tStatus = 200
    /\ \E i \in 1..Len(tRequest.planets) : \E j \in (i + 1)..Len(tRequest.planets) :
       \E s \in 0..(tDay - 1) : \E e \in (s + 1)..(tDay - 1) :
            /\ IsAspectRun(i, j, s, e)
            /\ AspectOn(i, j, e + 1) # AspectOn(i, j, s)
            /\ Cardinality(AspectEventsIn(i, j, s, e)) = 1

\* The k-th body moves direct from scan day d to the next day and is one sign
\* further on the next day.
CrossesOneSign(k, d) ==
    LET e == tEphemeris[tRequest.planets[k]]
    IN  /\ \/ e.rate > 0 /\ DayStart(d + 1) <= e.turn
           \/ e.rate > 0 /\ e.back <= DayStart(d)
           \/ e.rate < 0 /\ e.turn <= DayStart(d) /\ DayStart(d + 1) <= e.back
        /\ FloorDiv(ScanLongitude(k, d + 1), RashiWidth)
              = (FloorDiv(ScanLongitude(k, d), RashiWidth) + 1) % 12

\* The ingress events of the k-th body dated within scan day d.
IngressEventsOn(k, d) ==
    {n \in 1..Len(tTransits) :
        /\ tTransits[n].eventType = "ingress"
        /\ tTransits[n].planet = tRequest.planets[k]
        /\ DayStart(d) <= tTransits[n].date
        /\ tTransits[n].date <= DayStart(d + 1)}

\* C7: when a body's sidereal longitude increases across exactly one sign
\* boundary between a scan day and the next day, exactly one ingress event is
\* emitted for the body and the day, it names the entered sign, and its degree
\* is within 0.01 degree of 0 degrees of the entered sign.
C7_IngressAtSignBoundary ==
    (tPc \in {"scan", "responded"} /\ tStatus # 500) =>
        \A k \in 1..Len(tRequest.planets) : \A d \in 0..(tDay - 1) :
            CrossesOneSign(k, d) =>
                LET entered == FloorDiv(ScanLongitude(k, d + 1), RashiWidth)
                IN  /\ Cardinality(IngressEventsOn(k, d)) = 1
                    /\ \A n \in IngressEventsOn(k, d) :
                          /\ tTransits[n].rashi
                                = GetRashiName(entered, tRequest.language)
                          /\ Separation(tTransits[n].degree, entered * RashiWidth)
                                <= Deg \div 100

\* C8: the transit list of a successful scan is in non-decreasing order of
\* the events' instants.
C8_TransitsSortedByDate ==
    (tPc = "responded" /\ tStatus = 200) =>
        \A m \in 1..Len(tTransits) : \A n \in m..Len(tTransits) :
            tTransits[m].date <= tTransits[n].date

\* A successful scan that lists an aspect event before an ingress of the same
\* scan day: the ingress was detected, and pushed, first.
C8_Witness ==
    /\ tPc = "responded" /\ tStatus = 200
    /\ \E m \in 1..Len(tTransits) : \E n \in (m + 1)..Len(tTransits) :
          /\ tTransits[m].eventType = "aspect"
          /\ tTransits[n].eventType = "ingress"
          /\ tTransits[m].date < tTransits[n].date
          /\ tTransits[n].date < tTransits[m].date + DayMs

\* The ruler of each of the twelve signs, as C11 lists them.
SignRuler ==
    [Aries |-> "Mars", Taurus |-> "Venus", Gemini |-> "Mercury",
     Cancer |-> "Moon", Leo |-> "Sun", Virgo |-> "Mercury", Libra |-> "Venus",
     Scorpio |-> "Mars", Sagittarius |-> "Jupiter", Capricorn |-> "Saturn",
     Aquarius |-> "Saturn", Pisces |-> "Jupiter"]

\* The sign is the planet's exaltation, debilitation or own sign.
HasOwnDignity(planet, sign) ==
    \/ planetaryExaltation[planet] = sign
    \/ planetaryDebilitation[planet] = sign
    \/ SignRuler[sign] = planet

\* C11: in a sign that is neither its exaltation, debilitation nor own sign, a
\* planet is Friendly exactly when the ruler of the sign is in its friendship
\* set, and Enemy otherwise.
C11_FriendlyBySignRuler ==
    gPc = "done" =>
        LET sign == SignOfRashiName(gRashi, gLanguage)
        IN  ~HasOwnDignity(gPlanet, sign) =>
                gDignity = IF SignRuler[sign] \in planetaryFriendships[gPlanet]
                           THEN DignityLabel("Friendly", gLanguage)
                           ELSE DignityLabel("Enemy", gLanguage)

\* C12: whichever implementation of getNakshatra ran, the mansion index is in
\* 0..26 and the pada is in 1..4.
C12_IndexAndPadaInRange ==
    nImpl # "none" => nInfo.index \in 0..26 /\ nInfo.pada \in 1..4

\* The quarter of its mansion a sidereal longitude falls in: a mansion is
\* 13 deg 20' wide and a quarter 3 deg 20', that is NakshatraDen / 3 and
\* NakshatraDen / 12.
QuarterOf(L) == ((3 * L) % NakshatraDen) \div (10 * Deg) + 1

\* C13: the pada reported by getNakshatra (astronomical.ts and
\* generateHoroscope.js) is the quarter of the mansion the sidereal longitude
\* falls in, floor((L mod 13 deg 20') / 3 deg 20') + 1.
C13_PadaIsQuarterOfMansion ==
    nImpl \in {"utils", "horoscope"} =>
        nInfo.pada = QuarterOf(Normalize360(nLongitude - nAyanamsa))

\* The quarter a sign's navamshas start from, by the sign's index mod 4.
StartOffset(sign) == <<0, 9, 6, 3>>[(sign % 4) + 1]

\* The sidereal longitude calculateD9Position was applied to.
NavamshaSidereal == Wrap(vLongitude - vAyanamsa)

\* The number of whole 3 deg 20' quarters inside the sign: floor((L mod 30) / (10/3)).
PadaNumber(L) == (3 * (L % RashiWidth)) \div (10 * Deg)

\* C15: calculateNavamsha returns (startOffset(sign) + padaNumber) mod 12, with
\* sign = floor(L / 30), padaNumber in 0..8 and startOffset 0, 9, 6, 3 by sign
\* mod 4; the result is in 0..11 and the D9 degree lies in [0, 30).
C15_NavamshaByOffsetAndPada ==
    vPc = "done" =>
        LET L == NavamshaSidereal
            sign == L \div RashiWidth
        IN  /\ PadaNumber(L) \in 0..8
            /\ vPosition.rashiIndex = (StartOffset(sign) + PadaNumber(L)) % 12
            /\ vPosition.rashiIndex \in 0..11
            /\ vPosition.degree >= 0
            /\ vPosition.degree < RashiWidth

\* The last quarter of a sign that starts from Capricorn: the sum wraps past 12.
C15_Witness ==
    /\ vPc = "done"
    /\ NavamshaSidereal \div RashiWidth = 5
    /\ PadaNumber(NavamshaSidereal) = 8
    /\ vPosition.rashiIndex = 5

\* Two longitudes half a circle apart.
Opposite(rahu, ketu) == Wrap(rahu - ketu - 180 * Deg) = 0

\* The index of the sign a response names.
SignIndexOfName(rashi, language) ==
    (IF language = "si" THEN IndexOf(RashisSi, rashi) ELSE IndexOf(RashisEn, rashi)) - 1

C16_KetuSignFromOwnLongitude ==
    (fnName = "d9" /\ fnResponse.statusCode = 200) =>
        LET ketuSidereal ==
                Wrap(Wrap(D9MeanNode(fnRequest.days)) - fnResponse.payload.ayanamsa)
            positions == fnResponse.payload.planetaryD9Positions
        IN  /\ positions["Ketu"].rashi
                  = GetRashiName(CalculateNavamsha(ketuSidereal), fnRequest.language)
            /\ positions["Rahu"].rashi
                  = GetRashiName((CalculateNavamsha(ketuSidereal) + 6) % 12,
                                 fnRequest.language)

\* The request carries the configured secret as a bearer token.
FnCredentialCorrect ==
    fnSecret # "undefined" /\ fnRequest.authorization = "Bearer s3cret"
        /\ fnSecret = "s3cret"

\* C17: no endpoint answers a request lacking the correct bearer credential
\* with success: a POST without it is answered 401 (unauthorized) and a request
\* that is not a POST 405 (method not allowed).
C17_NoSuccessWithoutCredential ==
    /\ cPc = "responded" =>
          /\ cRequest.httpMethod # "POST" => cStatus = 405
          /\ (cRequest.httpMethod = "POST" /\ cRequest.authorization # "valid")
                => cStatus = 401
    /\ tPc = "responded" =>
          /\ tRequest.httpMethod # "POST" => tStatus = 405
          /\ (tRequest.httpMethod = "POST" /\ tRequest.authorization # "valid")
                => tStatus = 401
    /\ (fnName # "none" /\ fnResponse # NoResponse) =>
          /\ fnRequest.httpMethod # "POST" => fnResponse.statusCode = 405
          /\ (fnRequest.httpMethod = "POST" /\ ~FnCredentialCorrect)
                => fnResponse.statusCode = 401

\* C18: every endpoint answers an authorized request whose latitude is a
\* number outside [-90, 90], or whose longitude is a number outside
\* [-180, 180], with the validation-error outcome (400).
C18_OutOfRangeLocationRejected ==
    /\ (/\ cPc = "responded"
        /\ cRequest.httpMethod = "POST" /\ cRequest.authorization = "valid"
        /\ cRequest.body = "json"
        /\ cRequest.location \in {"latitude95", "longitude200"})
          => cStatus = 400
    /\ (/\ cPc \notin {"idle", "received", "responded"}
        /\ cRequest.location \in {"latitude95", "longitude200"})
          => FALSE
    /\ (/\ fnName # "none" /\ fnResponse # NoResponse
        /\ fnRequest.httpMethod = "POST" /\ FnCredentialCorrect
        /\ fnRequest.body = "json"
        /\ fnRequest.location \in {"latitude95", "longitude200"})
          => fnResponse.statusCode = 400 /\ fnResponse.errors # <<>>

\* C19: in the chart-type endpoints (chart, D9, dasha) an authorized POST with
\* a missing body, or with a dob that does not parse as a date, is answered
\* 400 with itemized messages, never 500.
C19_BadBodyOrDateIsValidationError ==
    /\ (/\ cPc = "responded"
        /\ cRequest.httpMethod = "POST" /\ cRequest.authorization = "valid"
        /\ (cRequest.body = "missing" \/ cRequest.dob = "unparseable"))
          => cStatus = 400
    /\ (/\ fnName \in {"d9", "dasha"} /\ fnResponse # NoResponse
        /\ fnRequest.httpMethod = "POST" /\ FnCredentialCorrect
        /\ (fnRequest.body = "missing" \/ fnRequest.dob = "unparseable"))
          => fnResponse.statusCode = 400 /\ fnResponse.errors # <<>>

\* C20: a transit request whose end instant is not strictly after its start
\* instant produces no events and is answered 400 'Validation errors', not 500.
C20_EmptyRangeIsValidationError ==
    (/\ tPc = "responded"
     /\ tRequest.httpMethod = "POST" /\ tRequest.authorization = "valid"
     /\ tRequest.body = "json"
     /\ tRequest.startDate = "valid" /\ tRequest.endDate = "valid"
     /\ tRequest.rangeDays = 0)
        => tStatus = 400 /\ tTransits = <<>>

\* The fixed Vimshottari sequence, as C25 lists it.
FixedSequence ==
    <<"Ketu", "Venus", "Sun", "Moon", "Mars", "Rahu", "Jupiter", "Saturn", "Mercury">>

\* The rotation of the fixed sequence that starts at its entry number first
\* (counted from 0): the planet at place k, k in 1..9.
Rotation(first, k) == FixedSequence[((first + k - 1) % 9) + 1]

\* The mansion the Moon's longitude lies in, 0..26.
MansionIndex(moonDegree) == (3 * moonDegree) \div (40 * Deg)

\* C25: the 9 Mahadashas are the rotation of the fixed sequence that starts at
\* the birth mansion's lord, sequence[mansionIndex mod 9], each planet once; the
\* 9 Antardashas of a Mahadasha are the rotation that starts at that
\* Mahadasha's own lord.
C25_RotationsOfFixedSequence ==
    dPc = "returned" =>
        /\ Len(dDashas) = 9
        /\ \A i \in 1..9 :
              /\ dDashas[i].planet = Rotation(MansionIndex(dMoonDegree) % 9, i)
              /\ Len(dDashas[i].antardasha) = 9
              /\ \A j \in 1..9 :
                    dDashas[i].antardasha[j].planet
                        = Rotation(IndexOf(FixedSequence, dDashas[i].planet) - 1, j)
        /\ Cardinality({dDashas[i].planet : i \in 1..9}) = 9

\* A birth in the second round of mansions, under a lord other than Ketu: the
\* periods wrap around the end of the sequence.
C25_Witness ==
    /\ dPc = "returned"
    /\ MansionIndex(dMoonDegree) = 16
    /\ dDashas[1].planet = "Saturn"
    /\ dDashas[3].planet = "Ketu"
    /\ dDashas[2].antardasha[1].planet = "Mercury"

\* C26: for the same instant the D9 handler computes the lunar nodes the chart
\* computes: the Rahu and Ketu longitudes underlying the D9 response are those
\* of calculateLunarNodes (here both less the same ayanamsa).
C26_D9NodesAreChartNodes ==
    (fnName = "d9" /\ fnResponse.statusCode = 200) =>
        /\ D9RahuSidereal(fnRequest.days, fnResponse.payload.ayanamsa)
              = Wrap(CalculateLunarNodes(fnRequest.days).rahu
                        - fnResponse.payload.ayanamsa)
        /\ D9KetuSidereal(fnRequest.days, fnResponse.payload.ayanamsa)
              = Wrap(CalculateLunarNodes(fnRequest.days).ketu
                        - fnResponse.payload.ayanamsa)

\* The least k with unit * 2^k >= n: ceil(log2(n / unit)).
RECURSIVE CeilLog2From(_, _, _)
CeilLog2From(n, unit, k) ==
    IF unit >= n THEN k ELSE CeilLog2From(n, 2 * unit, k + 1)

CeilLog2(n, unit) == CeilLog2From(n, unit, 0)

\* The spacing of findPreciseTransitTime's samples over a scan day, the window
\* a refinement starts from.
ScanTimeStep == DayMs \div Iterations

\* The scan's turn of day d looks for the k-th body's ingress and a pair of
\* samples in different signs starts the refinement.
Refines(k, d) ==
    /\ GetRashiTransit(ScanLongitude(k, d), tRequest.language)
          # GetRashiTransit(ScanLongitude(k, d + 1), tRequest.language)
    /\ FirstRashiChange(tRequest.planets[k], DayStart(d), ScanTimeStep, tAyanamsa)
          <= Iterations

\* The refinement loop of the k-th body on scan day d.
RefinementOn(k, d) ==
    Search(tRequest.planets[k], tAyanamsa, ScanTimeStep,
           DayStart(d) + ScanTimeStep
               * FirstRashiChange(tRequest.planets[k], DayStart(d), ScanTimeStep,
                                  tAyanamsa))

\* The scan days whose turn of the day loop has run (the last one to an
\* exception when the scan ended with 500).
TurnsRun == IF tStatus = 500 THEN 0..tDay ELSE 0..(tDay - 1)

\* The day loop has run at most range + 1 turns, exactly range + 1 when the
\* scan succeeded, and no refinement loop ran more than
\* ceil(log2(window / 1 s)) turns.
IterationsBounded ==
    (tPc \in {"scan", "responded"} /\ TransitReachesScan(tRequest)) =>
        /\ tDay <= tRequest.rangeDays + 1
        /\ (tPc = "responded" /\ tStatus = 200) => tDay = tRequest.rangeDays + 1
        /\ \A k \in 1..Len(tRequest.planets) : \A d \in TurnsRun :
              Refines(k, d) =>
                  RefinementOn(k, d).turns <= CeilLog2(ScanTimeStep, 1000)

\* A step of the scan that stays in the day loop is one turn of it: the turns
\* left, range + 1 - tDay, go down by one and stay at or above zero.
DayLoopAdvances ==
    (tPc = "scan" /\ tPc' = "scan") =>
        /\ tDay' = tDay + 1
        /\ tRequest.rangeDays + 1 - tDay' >= 0

\* C23: every transit scan over a valid range terminates with a bounded
\* iteration count: the day loop runs floor(range in days) + 1 turns, each of
\* them one day nearer the end of the range, and each refinement's bisection
\* loop runs at most ceil(log2(window / 1 s)) turns.
C23_ScanTerminatesBounded == []IterationsBounded /\ [][DayLoopAdvances]_vars

\* A finished scan of the longest range in which a refinement ran the full
\* eleven turns of a half-hour window.
C23_Witness ==
    /\ tPc = "responded" /\ tStatus = 200
    /\ tRequest.rangeDays = MaxScanDays
    /\ tDay = MaxScanDays + 1
    /\ \E k \in 1..Len(tRequest.planets) : \E d \in 0..(tDay - 1) :
          /\ Refines(k, d)
          /\ RefinementOn(k, d).turns = 11
          /\ CeilLog2(ScanTimeStep, 1000) = 11

\* The wrap-corrected motion of the k-th body from scan day d to the day after.
DailyMotion(k, d) == FoldMotion(ScanLongitude(k, d + 1) - ScanLongitude(k, d))

\* The station events of the k-th body, as places in the transit list.
StationEvents(k) ==
    {n \in 1..Len(tTransits) :
        /\ tTransits[n].eventType \in {"retrograde", "direct"}
        /\ tTransits[n].planet = tRequest.planets[k]}

\* The station events of the k-th body dated at the start of scan day d.
StationEventsOn(k, d) ==
    {n \in StationEvents(k) : tTransits[n].date = DayStart(d)}

\* The motion of the k-th body changes sign at scan day d: negative on one
\* side of the day and not on the other.
MotionTurnsAt(k, d) == (DailyMotion(k, d) < 0) # (DailyMotion(k, d - 1) < 0)

\* C24: for every tracked body other than Sun and Moon and every scan day d
\* there is a station event at d exactly when the sign of the wrap-corrected
\* daily motion d -> d+1 differs from that of d-1 -> d, retrograde when the new
\* motion is negative and direct otherwise; successive station events of a
\* body alternate; Sun and Moon have no station events.
C24_StationAtMotionSignChange ==
    (tPc \in {"scan", "responded"} /\ tStatus # 500) =>
        \A k \in 1..Len(tRequest.planets) :
            /\ \A d \in 0..(tDay - 1) :
                  IF tRequest.planets[k] \notin {"Sun", "Moon"} /\ MotionTurnsAt(k, d)
                  THEN /\ Cardinality(StationEventsOn(k, d)) = 1
                       /\ \A n \in StationEventsOn(k, d) :
                             tTransits[n].eventType
                                 = IF DailyMotion(k, d) < 0 THEN "retrograde"
                                   ELSE "direct"
                  ELSE StationEventsOn(k, d) = {}
            /\ \A m \in StationEvents(k) : \A n \in StationEvents(k) :
                  (m < n /\ \A x \in StationEvents(k) : ~(m < x /\ x < n))
                      => /\ tTransits[m].eventType # tTransits[n].eventType
                         /\ tTransits[m].date < tTransits[n].date
            /\ tRequest.planets[k] \in {"Sun", "Moon"} => StationEvents(k) = {}

\* A finished scan in which Mars turned retrograde on one scan day and direct
\* on a later one: two station events, the retrograde one first.
C24_Witness ==
    /\ tPc = "responded" /\ tStatus = 200
    /\ \E k \in 1..Len(tRequest.planets) :
       \E m \in StationEvents(k) : \E n \in StationEvents(k) :
          /\ tRequest.planets[k] = "Mars"
          /\ m < n
          /\ tTransits[m].eventType = "retrograde"
          /\ tTransits[n].eventType = "direct"
          /\ Cardinality(StationEvents(k)) = 2

\* The sign the k-th body is in at the instant t.
SignAt(k, t) ==
    FloorDiv(CalculatePlanetaryPosition(tRequest.planets[k], t, tAyanamsa)
                 .siderealLongitude, RashiWidth)

\* C28: when the refinement loop of findPreciseTransitTime ends, for a body
\* that moved direct across one sign boundary inside the sampled step, the
\* interval [left, right] brackets the crossing (the body is in the
\* pre-crossing sign at left and in the entered sign at right) and right is at
\* most one second after the crossing.
C28_BracketsTheCrossing ==
    (tPc \in {"scan", "responded"} /\ tStatus # 500) =>
        \A k \in 1..Len(tRequest.planets) : \A d \in 0..(tDay - 1) :
            (CrossesOneSign(k, d) /\ Refines(k, d)) =>
                /\ SignAt(k, RefinementOn(k, d).left) = SignAt(k, DayStart(d))
                /\ SignAt(k, RefinementOn(k, d).right) = SignAt(k, DayStart(d + 1))
                /\ SignAt(k, RefinementOn(k, d).right - 1001) = SignAt(k, DayStart(d))

\* C29: every event of a transit scan carries an instant inside the requested
\* range, start <= date <= end, ingress events as well as station and aspect
\* events (the range starts at instant 0 and ends rangeDays days later).
C29_EventsInsideRange ==
    (tPc \in {"scan", "responded"} /\ TransitReachesScan(tRequest)) =>
        \A n \in 1..Len(tTransits) :
            /\ 0 <= tTransits[n].date
            /\ tTransits[n].date <= DayStart(tRequest.rangeDays)

\* C30: every ingress event is internally consistent: the sign containing the
\* reported degree, floor(degree / 30), is the sign named in the event's rashi
\* field.
C30_IngressDegreeInNamedSign ==
    \A n \in 1..Len(tTransits) :
        tTransits[n].eventType = "ingress" =>
            GetRashiName(FloorDiv(tTransits[n].degree, RashiWidth),
                         tRequest.language) = tTransits[n].rashi

\* The places in the list of yogas of the records of the yoga with the key.
YogasNamed(key) ==
    {n \in 1..Len(yYogas) :
        yYogas[n].name = IF yLanguage = "si" THEN "si:" \o key ELSE key}

\* The planet of each of the five Mahapurusha yogas, as C21 lists them.
MahapurushaPlanet ==
    [RuchakaYoga |-> "Mars", BhadraYoga |-> "Mercury", HamsaYoga |-> "Jupiter",
     MalavyaYoga |-> "Venus", SashaYoga |-> "Saturn"]

\* The sign of a sidereal longitude in [0, 360).
SignOf(position) == ZodiacSigns[position \div RashiWidth + 1]

\* The house of a longitude counted by signs from the Ascendant's sign.
HouseFromAscendant(position) ==
    ((position \div RashiWidth - yPositions["Ascendant"] \div RashiWidth + 12) % 12) + 1

\* C21: each of the five Mahapurusha yogas (Ruchaka/Mars, Bhadra/Mercury,
\* Hamsa/Jupiter, Malavya/Venus, Sasha/Saturn) is emitted exactly when its
\* planet is in its own or exaltation sign and in a Kendra house (1, 4, 7, 10)
\* from the Ascendant; its strength is Strong when the planet is in its
\* exaltation sign and Medium when it is only in its own sign.
C21_MahapurushaByDignityAndKendra ==
    yPc = "done" =>
        \A key \in DOMAIN MahapurushaPlanet :
            LET planet == MahapurushaPlanet[key]
                sign == SignOf(yPositions[planet])
                exalted == planetaryExaltation[planet] = sign
                own == SignRuler[sign] = planet
            IN  IF (own \/ exalted)
                   /\ HouseFromAscendant(yPositions[planet]) \in {1, 4, 7, 10}
                THEN /\ Cardinality(YogasNamed(key)) = 1
                     /\ \A n \in YogasNamed(key) :
                           yYogas[n].strength
                               = IF exalted THEN "Strong" ELSE "Medium"
                ELSE YogasNamed(key) = {}

\* C22: the orb tests use the circular separation min(|a - b|, 360 - |a - b|):
\* Raja Yoga is emitted exactly when Jupiter and Saturn are less than 10
\* degrees apart, Budha Aditya Yoga exactly when Mercury and Sun are less than
\* 15 degrees apart (Strong under 5 degrees, Medium otherwise), and Mahabhagya
\* Yoga exactly when Venus and Jupiter are less than 10 degrees apart with
\* Venus in a Kendra or Trikona, also across the 0/360 degree boundary.
C22_OrbsByCircularSeparation ==
    yPc = "done" =>
        LET p == yPositions
        IN  /\ (YogasNamed("RajaYoga") # {})
                  = (Separation(p["Jupiter"], p["Saturn"]) < 10 * Deg)
            /\ (YogasNamed("BudhaAdityaYoga") # {})
                  = (Separation(p["Mercury"], p["Sun"]) < 15 * Deg)
            /\ \A n \in YogasNamed("BudhaAdityaYoga") :
                  yYogas[n].strength
                      = IF Separation(p["Mercury"], p["Sun"]) < 5 * Deg
                        THEN "Strong" ELSE "Medium"
            /\ (YogasNamed("MahabhagyaYoga") # {})
                  = /\ Separation(p["Venus"], p["Jupiter"]) < 10 * Deg
                    /\ \/ IsInKendra(p["Venus"], p["Ascendant"])
                       \/ IsInTrikona(p["Venus"])

\* C27: Amala Yoga is emitted exactly when a benefic (Jupiter, Venus or
\* Mercury) occupies the 10th house counted from the Moon, whatever the Moon's
\* longitude, and at most one Amala record is emitted per chart.
C27_AmalaByTenthFromMoon ==
    yPc = "done" =>
        /\ (YogasNamed("AmalaYoga") # {})
              = (\E planet \in {"Jupiter", "Venus", "Mercury"} :
                    GetHouseFromMoon(yPositions["Moon"], yPositions[planet]) = 10)
        /\ Cardinality(YogasNamed("AmalaYoga")) <= 1

=============================================================================
